---- MODULE Spec2Model ----
(***************************************************************************)
(* PII-Shield: the synchronization engine.                                 *)
(*   - Consumer life cycle and listener   (pii_shield/sync/consumer.py)    *)
(*   - Publisher and sync_data            (pii_shield/sync/publisher.py)   *)
(*   - Request gate                       (pii_shield/middleware.py)       *)
(*   - PIIModel and the cleanup command   (pii_shield/models.py,           *)
(*       pii_shield/management/commands/cleanup_expired_data.py)           *)
(*   - Database router                    (pii_shield/routers.py)          *)
(* The specifications share the variables below; each one leaves the       *)
(* variables it does not use unchanged.                                    *)
(*   Spec          Consumer.start/stop/restart/subscribe and _listen       *)
(*   SpecSync      sync_data against the secure store and the bus          *)
(*   SpecPipeline  Publisher.publish_model -> Consumer._process_message    *)
(*   SpecGate      PIIShieldMiddleware.process_request                     *)
(*   SpecSweep     cleanup_expired_data and PIIModel.cleanup_expired       *)
(*   SpecEntity    the expiry of an entity: sync_data, refresh_expiration  *)
(*   SpecBatch     Publisher.publish_batch                                 *)
(*   SpecWalk      sync_data over the relations of its instances           *)
(*   SpecRouter    PIIRouter.db_for_read / db_for_write                    *)
(*   SpecRelation  PIIRouter.allow_relation                                *)
(*   SpecSweepFair SpecSweep with the command's pass weakly fair           *)
(*   SpecRace      the cleanup command next to refresh and the Consumer    *)
(***************************************************************************)
EXTENDS Integers, Sequences, FiniteSets, TLC

VARIABLES
    mode,           \* settings.PII_SHIELD["MODE"]: "unset", "frontend" or "backend"
    auto_reconnect, \* settings.PII_SHIELD["ADVANCED"]["auto_reconnect"]
    booted,         \* initialize() has run (AppConfig.ready)
    running,        \* Consumer.running
    thread,         \* Consumer.thread: 0 is None, else an index of workers
    lock,           \* Consumer.lock: "free" or the caller holding it
    channels,       \* the channels the Consumer's pubsub is subscribed to
    inbox,          \* events waiting on the pubsub connection, oldest first
    workers,        \* every listener thread ever spawned, in spawn order
    pc,             \* per caller thread: its position in start()/stop()/restart()
    op,             \* per caller thread: the public method it is running
    hist,           \* history of the Consumer's life cycle
    frontendDb,     \* the isolated store: identity -> row
    backendDb,      \* the secure store: identity -> row (committed)
    mem,            \* the caller's in-memory model instances: identity -> instance
    busLog,         \* every message handed to Publisher.publish, in publish order
    now,            \* the clock, timezone.now()
    syncHist,       \* history of the last sync_data call
    queue,          \* messages delivered to the Consumer and not yet processed
    pipeHist,       \* history of the publish/process pipeline
    session,        \* the request's session: its key and its items
    gateHist,       \* history of the gate's last request
    waiting_view,   \* settings.PII_SHIELD["ADVANCED"]["waiting_view"], "" when unset
    sweep,          \* the cleanup_expired_data command: its options and counters
    cleanup,        \* history of the last PIIModel.cleanup_expired call
    entityHist,     \* history of the writes to an entity's data_expires_at
    batchHist,      \* history of the last publish_batch call
    routeHist,      \* what the router answered, per model and operation
    allow_mixed_relations, \* settings.PII_SHIELD["ADVANCED"]["allow_mixed_relations"]
    relationHist,   \* what allow_relation answered, per pair of objects
    race            \* the cleanup command's pass, statement by statement

consumerVars == <<booted, running, thread, lock, channels, inbox, workers, pc, op, hist>>
syncVars     == <<backendDb, mem, busLog, syncHist>>
pipeVars     == <<queue, pipeHist>>
gateVars     == <<session, gateHist, waiting_view>>
toolVars     == <<sweep, cleanup, entityHist, batchHist, routeHist>>
relVars      == <<allow_mixed_relations, relationHist>>
restVars     == <<relVars, race>>
vars == <<mode, auto_reconnect, consumerVars, frontendDb, syncVars, now, pipeVars, gateVars,
          toolVars, restVars>>

(***************************************************************************)
(* Bounds of the model.                                                    *)
(***************************************************************************)
MaxWorkers == 2     \* listener threads spawned in one behaviour
MaxInbox   == 2     \* events waiting on the pubsub connection
MaxPk      == 2     \* primary keys of Address
MaxClock   == 2     \* clock advances in one behaviour
MaxSyncCalls == 1   \* sync_data calls in one behaviour
MaxPublishes == 2   \* entities published in one behaviour
MaxRequests  == 2   \* requests of one session in one behaviour
MaxBatchSize == 3   \* the batch sizes tried are 1..MaxBatchSize
MaxSweepPasses  == 4  \* passes of a dry run of the cleanup command in one behaviour
MaxCleanupCalls == 1  \* PIIModel.cleanup_expired calls in one behaviour
MaxDepth == 2         \* the depths passed to sync_data are 0..MaxDepth
MaxEntityOps == 3     \* creations, syncs and refreshes of an entity in one behaviour
MaxBatchLen == 4      \* instances passed to one publish_batch call

Callers == {"t1", "t2"}

(***************************************************************************)
(* Settings and their defaults.                                            *)
(***************************************************************************)
Modes == {"unset", "frontend", "backend"}

\* getattr(settings, "PII_SHIELD", {}).get("MODE", default)
SettingsMode(default) == IF mode = "unset" THEN default ELSE mode

max_retries    == 3
retry_delay    == 1
backoff_factor == 2
session_timeout   == 1800
refresh_threshold == 300

prefix          == "pii_shield"
default_channel == "default"

\* f"{prefix}:{channel}"
FullChannel(name) == <<prefix, name>>

(***************************************************************************)
(* Time: milliseconds since the epoch plus the microseconds within the     *)
(* millisecond (datetime has microsecond resolution).                      *)
(***************************************************************************)
Time(ms, us) == [ms |-> ms, us |-> us]
T0 == Time(0, 0)

\* t + timedelta(seconds=secs)
TimeAdd(t, secs) == [ms |-> t.ms + 1000 * secs, us |-> t.us]

TimeLT(a, b) == a.ms < b.ms \/ (a.ms = b.ms /\ a.us < b.us)

\* PIIModel.get_expiration_time(): timezone.now() + timedelta(seconds=timeout)
get_expiration_timeToMillisecond == [ms |-> now.ms + 1000 * session_timeout, us |-> 0]

get_expiration_time == TimeAdd(now, session_timeout)

(***************************************************************************)
(* Entities, stores and the JSON form of an entity.                        *)
(* An instance carries its model label, primary key, the two PIIModel      *)
(* fields, one domain field (value) and one forward reference (ref: the    *)
(* primary key of UserProfile.address, 0 when it is None).  A store is the *)
(* set of its rows.                                                        *)
(***************************************************************************)
PiiModels  == {"Address", "UserProfile"}
Sessions   == {"s1", "s2"}
Values     == {"v1", "v2"}

Instance(model, pk, sid, exp, val, ref) ==
    [model |-> model, pk |-> pk, session_id |-> sid, data_expires_at |-> exp,
     value |-> val, ref |-> ref]

IdOf(inst) == <<inst.model, inst.pk>>

EmptyDb == {}

\* a save that always inserts
SaveInsertOnly(db, inst) == db \cup {inst}

\* Model.save() of an instance that carries its primary key: the row with
\* that identity is overwritten, or inserted when there is none
Save(db, inst) == {r \in db : IdOf(r) # IdOf(inst)} \cup {inst}

\* the rows of one identity
RowsOf(db, id) == {r \in db : IdOf(r) = id}

\* DjangoJSONEncoder writes a datetime in the ECMA-262 form, to the millisecond
EncodeDateTime(t) == [ms |-> t.ms, us |-> 0]

\* serializers.serialize("json", instances): one {"model", "pk", "fields"} entry each
SerializeOne(inst) ==
    [model |-> inst.model, pk |-> inst.pk,
     fields |-> [session_id |-> inst.session_id,
                 data_expires_at |-> EncodeDateTime(inst.data_expires_at),
                 value |-> inst.value,
                 ref |-> inst.ref]]

serialize(instances) ==
    [json |-> TRUE, objs |-> [k \in 1..Len(instances) |-> SerializeOne(instances[k])]]

\* a payload that is no JSON document at all
Garbage == [json |-> FALSE, objs |-> <<>>]

\* serializers.deserialize("json", data) raises on a malformed document or an
\* unknown model label
DeserializeRaises(data) ==
    \/ ~data.json
    \/ \E k \in 1..Len(data.objs) : data.objs[k].model \notin PiiModels

DeserializeOne(o) ==
    Instance(o.model, o.pk, o.fields.session_id, o.fields.data_expires_at,
             o.fields.value, o.fields.ref)

deserialize(data) == [k \in 1..Len(data.objs) |-> DeserializeOne(data.objs[k])]

\* with transaction.atomic(): for obj in objects: obj.save()
RECURSIVE SaveAll(_, _)
SaveAll(db, objects) ==
    IF objects = <<>> THEN db
    ELSE SaveAll(Save(db, Head(objects)), Tail(objects))

(***************************************************************************)
(* Bus events: what pubsub.listen() yields.                                *)
(***************************************************************************)
Event(type, channel, data) == [type |-> type, channel |-> channel, data |-> data]
NoEvent == Event("none", FullChannel(""), Garbage)

\* a processing step that answers True without committing
_process_messageNoCommit(message, db, dbOk) ==
    [ok |-> message.type = "message", db |-> db, raised |-> FALSE]

\* Consumer._process_message(message): the return value and the isolated
\* store afterwards.  dbOk = FALSE is a storage error inside the transaction.
\* Every exception is caught and turned into a False return.
_process_message(message, db, dbOk) ==
    IF message.type # "message" THEN [ok |-> FALSE, db |-> db, raised |-> FALSE]
    ELSE IF DeserializeRaises(message.data) THEN [ok |-> FALSE, db |-> db, raised |-> FALSE]
    ELSE IF ~dbOk THEN [ok |-> FALSE, db |-> db, raised |-> FALSE]
    ELSE [ok |-> TRUE, db |-> SaveAll(db, deserialize(message.data)), raised |-> FALSE]

(***************************************************************************)
(* Consumer: the life cycle (start, stop, restart, subscribe, initialize)  *)
(* and the listener thread (_listen).                                      *)
(***************************************************************************)
\* what the Consumer's actions leave alone
ConsumerFrame == UNCHANGED <<mode, auto_reconnect, syncVars, now, pipeVars, gateVars, toolVars,
                             restVars>>

NewWorker ==
    [st |-> "recv", msg |-> NoEvent, success |-> FALSE, retry_count |-> 0,
     current_delay |-> retry_delay, calls |-> 0, slept |-> <<>>]

\* a listener thread that has ended
DeadWorker == [NewWorker EXCEPT !.st = "dead"]

InitHist ==
    [startTrue |-> 0, stopCleared |-> 0, startFalse |-> FALSE, everSubscribed |-> FALSE]

\* the prefixed channel names subscribe(channels) asks for; "None" is channels=None
SubscribeArgs == {"None"}

SubscribeTargets(arg) ==
    IF arg = "None" THEN {FullChannel(default_channel)} ELSE {FullChannel(arg)}

\* with self.lock: the caller enters when no other caller holds the lock
LockAvailableNoMutex == TRUE

LockAvailable == lock = "free"

Room(n) == Len(inbox) + n <= MaxInbox

\* the attempts counter stops counting one past max_retries
AttemptCap == max_retries + 1

Bump(n) == IF n < AttemptCap THEN n + 1 ELSE n

\* pubsub.subscribe(*channels): the bus acknowledges each channel with a control event
PubsubSubscribe(targets, ib) ==
    LET t == CHOOSE x \in targets : TRUE
    IN  Append(ib, Event("subscribe", t, Garbage))

\* pubsub.unsubscribe(): leaves every channel; the bus acknowledges with a control event
PubsubUnsubscribe(ib) == Append(ib, Event("unsubscribe", FullChannel(""), Garbage))

\* Consumer.subscribe(channels): ok = FALSE is a transport error, caught and logged
subscribe(arg, ok) ==
    /\ Room(1)
    /\ IF ok
       THEN /\ channels' = channels \cup SubscribeTargets(arg)
            /\ inbox' = PubsubSubscribe(SubscribeTargets(arg), inbox)
       ELSE UNCHANGED <<channels, inbox>>

\* threading.Thread(target=self._listen); daemon; start()
Spawn ==
    /\ workers' = Append(workers, NewWorker)
    /\ thread' = Len(workers) + 1

\* initialize(): at process start, before any other thread uses the Consumer
initialize(ok) ==
    /\ ~booted
    /\ booted' = TRUE
    /\ IF SettingsMode("frontend") = "frontend" /\ auto_reconnect
       THEN /\ subscribe("None", ok)
            /\ running' = TRUE
            /\ Spawn
            /\ hist' = [hist EXCEPT !.startTrue = 1, !.everSubscribed = ok]
       ELSE UNCHANGED <<channels, inbox, running, workers, thread, hist>>
    /\ UNCHANGED <<lock, pc, op, frontendDb>>
    /\ ConsumerFrame

\* the call returns to its caller
Return(c) ==
    /\ pc' = [pc EXCEPT ![c] = "idle"]
    /\ op' = [op EXCEPT ![c] = "none"]

Goto(c, label) ==
    /\ pc' = [pc EXCEPT ![c] = label]
    /\ UNCHANGED op

StartsInFlight == Cardinality({c \in Callers : op[c] \in {"start", "restart"}})

\* a caller thread calls start() or restart(); the model stops spawning at MaxWorkers
CallStart(c) ==
    /\ booted /\ pc[c] = "idle"
    /\ Len(workers) + StartsInFlight < MaxWorkers
    /\ pc' = [pc EXCEPT ![c] = "start_mode"]
    /\ op' = [op EXCEPT ![c] = "start"]
    /\ UNCHANGED <<booted, running, thread, lock, channels, inbox, workers, hist, frontendDb>>
    /\ ConsumerFrame

CallStop(c) ==
    /\ booted /\ pc[c] = "idle"
    /\ pc' = [pc EXCEPT ![c] = "stop_lock"]
    /\ op' = [op EXCEPT ![c] = "stop"]
    /\ UNCHANGED <<booted, running, thread, lock, channels, inbox, workers, hist, frontendDb>>
    /\ ConsumerFrame

CallRestart(c) ==
    /\ booted /\ pc[c] = "idle"
    /\ Len(workers) + StartsInFlight < MaxWorkers
    /\ pc' = [pc EXCEPT ![c] = "stop_lock"]
    /\ op' = [op EXCEPT ![c] = "restart"]
    /\ UNCHANGED <<booted, running, thread, lock, channels, inbox, workers, hist, frontendDb>>
    /\ ConsumerFrame

CallSubscribe(c, arg, ok) ==
    /\ booted /\ pc[c] = "idle"
    /\ subscribe(arg, ok)
    /\ Return(c)
    /\ hist' = [hist EXCEPT !.everSubscribed = @ \/ ok]
    /\ UNCHANGED <<booted, running, thread, lock, workers, frontendDb>>
    /\ ConsumerFrame

\* start(): the role check, before the lock is taken
StartMode(c) ==
    /\ pc[c] = "start_mode"
    /\ IF SettingsMode("frontend") # "frontend"
       THEN /\ Return(c)
            /\ hist' = [hist EXCEPT !.startFalse = TRUE]
       ELSE /\ Goto(c, "start_lock")
            /\ UNCHANGED hist
    /\ UNCHANGED <<booted, running, thread, lock, channels, inbox, workers, frontendDb>>
    /\ ConsumerFrame

StartLock(c) ==
    /\ pc[c] = "start_lock"
    /\ LockAvailable
    /\ lock' = c
    /\ Goto(c, "start_check")
    /\ UNCHANGED <<booted, running, thread, channels, inbox, workers, hist, frontendDb>>
    /\ ConsumerFrame

\* if self.running: return False
StartCheck(c) ==
    /\ pc[c] = "start_check"
    /\ IF running
       THEN /\ Return(c)
            /\ lock' = "free"
            /\ hist' = [hist EXCEPT !.startFalse = TRUE]
       ELSE /\ Goto(c, "start_set")
            /\ UNCHANGED <<lock, hist>>
    /\ UNCHANGED <<booted, running, thread, channels, inbox, workers, frontendDb>>
    /\ ConsumerFrame

\* self.running = True; spawn the listener; return True
StartSet(c) ==
    /\ pc[c] = "start_set"
    /\ running' = TRUE
    /\ Spawn
    /\ lock' = "free"
    /\ Return(c)
    /\ hist' = [hist EXCEPT !.startTrue = @ + 1]
    /\ UNCHANGED <<booted, channels, inbox, frontendDb>>
    /\ ConsumerFrame

StopLock(c) ==
    /\ pc[c] = "stop_lock"
    /\ LockAvailable
    /\ lock' = c
    /\ Goto(c, "stop_check")
    /\ UNCHANGED <<booted, running, thread, channels, inbox, workers, hist, frontendDb>>
    /\ ConsumerFrame

\* what follows stop() in the caller: restart() goes on to start()
AfterStop(c) ==
    IF op[c] = "restart" THEN Goto(c, "start_mode") ELSE Return(c)

\* if not self.running: return False; else clear the flag and unsubscribe
StopCheck(c) ==
    /\ pc[c] = "stop_check"
    /\ IF ~running
       THEN /\ AfterStop(c)
            /\ lock' = "free"
            /\ UNCHANGED <<running, channels, inbox, hist>>
       ELSE /\ Room(1)
            /\ running' = FALSE
            /\ channels' = {}
            /\ inbox' = PubsubUnsubscribe(inbox)
            /\ hist' = [hist EXCEPT !.stopCleared = @ + 1]
            /\ Goto(c, "stop_join")
            /\ UNCHANGED lock
    /\ UNCHANGED <<booted, thread, workers, frontendDb>>
    /\ ConsumerFrame

\* self.thread.join(timeout=5.0): returns when the listener has ended or when
\* the timeout has elapsed, whichever comes first; then return True
StopJoin(c) ==
    /\ pc[c] = "stop_join"
    /\ lock' = "free"
    /\ AfterStop(c)
    /\ UNCHANGED <<booted, running, thread, channels, inbox, workers, hist, frontendDb>>
    /\ ConsumerFrame

\* pubsub.close(): the connection is released, with its subscriptions and
\* whatever was still waiting on it
PubsubClose ==
    /\ channels' = {}
    /\ inbox' = <<>>

SetWorker(w, rec) == workers' = [workers EXCEPT ![w] = rec]

\* an exception in the receive loop (connection lost, socket timeout):
\* logged, then finally: close
ListenError(w) ==
    /\ workers[w].st = "recv"
    /\ SetWorker(w, DeadWorker)
    /\ PubsubClose
    /\ UNCHANGED <<booted, running, thread, lock, pc, op, hist, frontendDb>>
    /\ ConsumerFrame

\* for message in self.pubsub.listen(): the iteration ends when nothing is
\* subscribed any more and nothing is waiting (then finally: close)
ListenEnd(w) ==
    /\ workers[w].st = "recv"
    /\ inbox = <<>> /\ channels = {}
    /\ SetWorker(w, DeadWorker)
    /\ PubsubClose
    /\ UNCHANGED <<booted, running, thread, lock, pc, op, hist, frontendDb>>
    /\ ConsumerFrame

\* for message in self.pubsub.listen(): the next event is yielded;
\* if not self.running: break (then finally: close); else success = False,
\* retry_count = 0, current_delay = retry_delay
ListenRecv(w) ==
    /\ workers[w].st = "recv"
    /\ inbox # <<>>
    /\ IF ~running
       THEN /\ SetWorker(w, DeadWorker)
            /\ PubsubClose
       ELSE /\ SetWorker(w, [NewWorker EXCEPT !.st = "loop", !.msg = Head(inbox)])
            /\ inbox' = Tail(inbox)
            /\ UNCHANGED channels
    /\ UNCHANGED <<booted, running, thread, lock, pc, op, hist, frontendDb>>
    /\ ConsumerFrame

\* while not success and retry_count < max_retries: one pass of the loop body
LoopCondition(wk) == ~wk.success /\ wk.retry_count < max_retries

\* the loop body: try: success = self._process_message(message)
\* except: retry_count += 1; sleep and back off if retries remain
LoopBody(wk, r) ==
    IF r.raised
    THEN IF wk.retry_count + 1 < max_retries
         THEN [wk EXCEPT !.retry_count = @ + 1, !.calls = Bump(@),
                         !.slept = Append(@, wk.current_delay),
                         !.current_delay = @ * backoff_factor]
         ELSE [wk EXCEPT !.retry_count = @ + 1, !.calls = Bump(@)]
    ELSE [wk EXCEPT !.success = r.ok, !.calls = Bump(@)]

ListenLoop(w, dbOk) ==
    /\ workers[w].st = "loop"
    /\ IF LoopCondition(workers[w])
       THEN LET r == _process_message(workers[w].msg, frontendDb, dbOk)
            IN  /\ SetWorker(w, LoopBody(workers[w], r))
                /\ frontendDb' = r.db
       ELSE /\ SetWorker(w, NewWorker)
            /\ UNCHANGED frontendDb
    /\ UNCHANGED <<booted, running, thread, lock, channels, inbox, pc, op, hist>>
    /\ ConsumerFrame

\* the payloads the backend puts on the bus in this specification
SampleInstance == Instance("Address", 1, "s1", TimeAdd(T0, session_timeout), "v1", 0)

Payloads == {serialize(<<SampleInstance>>)}

\* redis publish: delivered to the Consumer's connection when it is
\* subscribed to the channel, dropped otherwise (no backlog)
BusPublish(name, data) ==
    /\ booted
    /\ FullChannel(name) \in channels
    /\ Room(1)
    /\ inbox' = Append(inbox, Event("message", FullChannel(name), data))
    /\ UNCHANGED <<booted, running, thread, lock, channels, workers, pc, op, hist, frontendDb>>
    /\ ConsumerFrame

(***************************************************************************)
(* The clock.                                                              *)
(***************************************************************************)
\* the microseconds within the millisecond that the clock may show
MicroParts == {0, 250}

\* time passes: timezone.now() moves to a later instant, step milliseconds on
Tick(step, us) ==
    /\ now.ms < MaxClock * step
    /\ now' = Time(now.ms + step, us)

(***************************************************************************)
(* Publisher and sync_data.                                                *)
(***************************************************************************)
UserId == <<"User", 1>>

\* the instances the caller holds in memory
MemIds == ({"Address"} \X (1..MaxPk)) \cup {<<"UserProfile", 1>>, UserId}

\* hasattr(instance, "session_id") / hasattr(instance, "data_expires_at")
HasSessionFields(inst) == inst.model \in PiiModels

\* Publisher.publish(channel, message): the message handed to the bus
Published(name, data) == Event("message", FullChannel(name), data)

\* Publisher.publish_model(instance, channel=None)
publish_model(inst) == Published(default_channel, serialize(<<inst>>))

\* mode = settings.PII_SHIELD.get("MODE", "backend"); if mode != "backend": return False
RoleAllowsSyncAlways == TRUE

RoleAllowsSync == SettingsMode("backend") = "backend"

\* with transaction.atomic(): an exception leaving the block rolls the
\* secure store back to what it held when the block was entered
RollbackKeepsWrites(before, inside) == inside

Rollback(before, inside) == before

\* instance._meta.get_fields(): the concrete forward relation of an instance
\* (UserProfile.address), when it is set
HasRelated(inst) == inst.model = "UserProfile" /\ inst.ref # 0

RelatedId(inst) == <<"Address", inst.ref>>

\* instance._meta.get_fields(), the fields with field.is_relation and
\* field.concrete, in field order:
\*   UserProfile  user (one-to-one), address (many-to-one)
\*   User         groups, user_permissions (many-to-many)
\*   Address      none: the reverse side of UserProfile.address (one-to-many)
\*                has no column, so it is not concrete and is passed over
\* A many-to-many field is read with getattr(instance, field.name + "_set"),
\* an attribute a forward field does not have: AttributeError.
RelatedRaises(inst) == inst.model = "User"

\* the instances the many-to-one / one-to-one branch reaches, in field order
RelatedIds(inst) ==
    IF inst.model = "UserProfile"
    THEN <<UserId>> \o (IF HasRelated(inst) THEN <<RelatedId(inst)>> ELSE <<>>)
    ELSE <<>>

\* for instance in instances: set the fields, save, publish, then the related
\* instances when include_related and depth > 0.  st is the state of the call
\* so far; fault is the step (saves and publishes, counted in order) that
\* raises, 0 when none does.
RECURSIVE SyncWalk(_, _, _, _, _, _, _)
SyncWalk(ids, sid, include_related, depth, expiration_time, fault, st) ==
    IF ids = <<>> \/ st.failed THEN st
    ELSE LET id   == Head(ids)
             inst == IF HasSessionFields(st.mem[id])
                     THEN [st.mem[id] EXCEPT !.session_id = sid,
                                             !.data_expires_at = expiration_time]
                     ELSE st.mem[id]
             m1   == [st.mem EXCEPT ![id] = inst]
         IN  IF fault = st.step + 1
             THEN [st EXCEPT !.mem = m1, !.failed = TRUE]
             ELSE IF fault = st.step + 2
             THEN [st EXCEPT !.mem = m1, !.db = Save(st.db, inst), !.failed = TRUE]
             ELSE LET st2 == [db |-> Save(st.db, inst), mem |-> m1,
                              log |-> Append(st.log, publish_model(inst)),
                              step |-> st.step + 2, failed |-> FALSE,
                              visited |-> Append(st.visited, id)]
                      st3 == IF include_related /\ depth > 0
                             THEN IF RelatedRaises(inst)
                                  THEN [st2 EXCEPT !.failed = TRUE]
                                  ELSE SyncWalk(RelatedIds(inst), sid, include_related,
                                                depth - 1, expiration_time, fault, st2)
                             ELSE st2
                  IN  SyncWalk(Tail(ids), sid, include_related, depth,
                               expiration_time, fault, st3)

\* sync_data(instance_or_instances, session_id, include_related, depth):
\* the return value ("false", "true" or "raised") and the stores afterwards
sync_data(ids, sid, include_related, depth, fault) ==
    IF ~RoleAllowsSync
    THEN [result |-> "false", db |-> backendDb, mem |-> mem, log |-> busLog,
          visited |-> <<>>]
    ELSE LET st == SyncWalk(ids, sid, include_related, depth, get_expiration_time, fault,
                            [db |-> backendDb, mem |-> mem, log |-> busLog, step |-> 0,
                             failed |-> FALSE, visited |-> <<>>])
         IN  IF st.failed
             THEN [result |-> "raised", db |-> Rollback(backendDb, st.db),
                   mem |-> st.mem, log |-> st.log, visited |-> st.visited]
             ELSE [result |-> "true", db |-> st.db, mem |-> st.mem, log |-> st.log,
                   visited |-> st.visited]

\* what the backend's actions leave alone
SyncFrame == UNCHANGED <<auto_reconnect, consumerVars, frontendDb, pipeVars, gateVars, toolVars,
                         restVars>>

\* the instance lists a caller passes: one instance, or a list of two
InstanceLists ==
    {<<a>> : a \in MemIds}
        \cup {<<a, b>> : a \in {<<"UserProfile", 1>>}, b \in {"Address"} \X (1..MaxPk)}

\* the instances whose domain field the caller edits
Editable == {<<"Address", 1>>}

\* a row that an earlier sync_data call left committed in the secure store
EarlierRow == Instance("Address", 1, "s2", TimeAdd(T0, session_timeout), "v2", 0)

\* the steps of one call that may raise (a save or a publish), 0 for none
Faults == 0..4

\* (include_related, depth) as callers pass them; the defaults are (False, 1)
RelatedOptions == {<<FALSE, 1>>, <<TRUE, 0>>, <<TRUE, 1>>}

\* a caller in the backend process calls sync_data
SyncData(ids, sid, include_related, depth, fault) ==
    /\ syncHist.calls < MaxSyncCalls
    /\ LET r == sync_data(ids, sid, include_related, depth, fault)
       IN  /\ backendDb' = r.db
           /\ mem' = r.mem
           /\ busLog' = r.log
           /\ syncHist' = [calls |-> syncHist.calls + 1, result |-> r.result,
                           ids |-> ids, visited |-> r.visited]
    /\ UNCHANGED <<mode, now>>
    /\ SyncFrame

\* one sync_data call that does not fail at a save or a publish, with the
\* options it was given kept in the history
WalkSync(ids, sid, include_related, depth) ==
    /\ syncHist.calls = 0
    /\ LET r == sync_data(ids, sid, include_related, depth, 0)
       IN  /\ backendDb' = r.db
           /\ mem' = r.mem
           /\ busLog' = r.log
           /\ syncHist' = [calls |-> 1, result |-> r.result, ids |-> ids,
                           visited |-> r.visited, include_related |-> include_related,
                           depth |-> depth]
    /\ UNCHANGED <<mode, now>>
    /\ SyncFrame

\* the caller changes the domain field of an instance it holds
EditValue(id, val) ==
    /\ mem[id].value # val
    /\ mem' = [mem EXCEPT ![id].value = val]
    /\ UNCHANGED <<mode, now, backendDb, busLog, syncHist>>
    /\ SyncFrame

\* the caller points UserProfile.address at an Address, or at None
SetAddress(pk) ==
    /\ mem[<<"UserProfile", 1>>].ref # pk
    /\ mem' = [mem EXCEPT ![<<"UserProfile", 1>>].ref = pk]
    /\ UNCHANGED <<mode, now, backendDb, busLog, syncHist>>
    /\ SyncFrame

(***************************************************************************)
(* The replication pipeline: an entity published by the backend and the    *)
(* Consumer's processing step applied to the messages in delivery order.   *)
(***************************************************************************)
PipeFrame == UNCHANGED <<mode, auto_reconnect, booted, running, thread, lock, channels,
                         inbox, workers, pc, op, hist, syncVars, gateVars, toolVars,
                         restVars>>

NoInstance == Instance("", 0, "", T0, "", 0)

\* sync_data's step for one entity: the fields are set and publish_model
\* hands the serialized instance to the bus, which delivers it to the
\* Consumer when it is subscribed to the channel and drops it otherwise
PublishEntity(pk, sid, val) ==
    /\ pipeHist.published < MaxPublishes
    /\ LET inst == Instance("Address", pk, sid, get_expiration_time, val, 0)
           msg  == publish_model(inst)
       IN  IF msg.channel \in channels
           THEN /\ queue' = Append(queue, msg)
                /\ pipeHist' = [pipeHist EXCEPT !.published = @ + 1,
                                                !.sent = Append(@, inst)]
           ELSE /\ UNCHANGED queue
                /\ pipeHist' = [pipeHist EXCEPT !.published = @ + 1, !.dropped = TRUE]
    /\ UNCHANGED <<frontendDb, now>>
    /\ PipeFrame

\* the Consumer's processing step on the oldest delivered message; a step
\* that fails (dbOk = FALSE) leaves the message to be attempted again
ProcessNext(dbOk) ==
    /\ queue # <<>>
    /\ LET r    == _process_message(Head(queue), frontendDb, dbOk)
           inst == Head(pipeHist.sent)
       IN  IF r.ok
           THEN /\ frontendDb' = r.db
                /\ queue' = Tail(queue)
                /\ pipeHist' = [pipeHist EXCEPT
                                   !.sent = Tail(@),
                                   !.prev[inst.pk] = pipeHist.last[inst.pk],
                                   !.last[inst.pk] = inst,
                                   !.count[inst.pk] = @ + 1]
           ELSE /\ UNCHANGED <<frontendDb, queue>>
                /\ pipeHist' = [pipeHist EXCEPT !.failed = TRUE]
    /\ UNCHANGED now
    /\ PipeFrame

PipeTick(us) ==
    /\ Tick(1, us)
    /\ UNCHANGED <<frontendDb, queue, pipeHist>>
    /\ PipeFrame

(***************************************************************************)
(* The request gate: PIIShieldMiddleware.                                  *)
(***************************************************************************)
\* request paths, as their segments
PagePath    == <<"page">>
WaitingPath == <<"waiting">>
StaticPath  == <<"static", "app.js">>
Paths == {PagePath, WaitingPath, StaticPath}

\* settings.PII_SHIELD["ADVANCED"]["excluded_paths"]
excluded_paths == {<<"static">>}

\* request.path.startswith(path)
StartsWith(p, q) == Len(q) <= Len(p) /\ SubSeq(p, 1, Len(q)) = q

\* reverse(waiting_view)
reverse(view) == WaitingPath

\* the names a module binds: `from module import name` raises ImportError
\* for any other name
PublisherExports ==
    {"logging", "redis", "settings", "serializers", "transaction", "logger",
     "Publisher", "_publisher", "get_publisher", "sync_data"}

ImportRaises(name, exports) == name \notin exports

\* the models get_registered_models() returns
RegisteredModels == PiiModels

\* the attributes of the session object (its items are not attributes)
SessionAttributes(sess) == [session_key |-> sess.session_key]

\* getattr(obj, name, default)
GetAttr(attrs, name, default) == IF name \in DOMAIN attrs THEN attrs[name] ELSE default

\* model_class.objects.filter(session_id=session_id).exists()
ExistsFor(db, model, sid) == \E r \in db : r.model = model /\ r.session_id = sid

\* model_class.objects.filter(session_id=..., data_expires_at__lt=threshold_time).exists()
ExpiringFor(db, model, sid, threshold_time) ==
    \E r \in db : /\ r.model = model /\ r.session_id = sid
                  /\ TimeLT(r.data_expires_at, threshold_time)

\* a check that answers True when it cannot run
_check_pii_dataFailOpen(sess, db) ==
    IF ImportRaises("get_registered_models", PublisherExports) THEN TRUE
    ELSE IF RegisteredModels = {} THEN TRUE
    ELSE \A model \in RegisteredModels :
            /\ ExistsFor(db, model, sess.session_key)
            /\ ~ExpiringFor(db, model, sess.session_key, TimeAdd(now, refresh_threshold))

\* _check_pii_data(request): any exception is logged and answered False
_check_pii_data(sess, db) ==
    IF ImportRaises("get_registered_models", PublisherExports) THEN FALSE
    ELSE IF RegisteredModels = {} THEN TRUE
    ELSE \A model \in RegisteredModels :
            /\ ExistsFor(db, model, sess.session_key)
            /\ ~ExpiringFor(db, model, sess.session_key, TimeAdd(now, refresh_threshold))

\* a trigger that leaves the flag set whatever sync_data does
_initiate_syncKeepsFlag(sess, fault) ==
    LET r == sync_data(<<UserId>>, sess.session_key, FALSE, 1, fault)
    IN  [session |-> [sess EXCEPT !.items.pii_sync_in_progress = TRUE],
         sync |-> r]

\* _initiate_sync(request): the session afterwards and what sync_data did;
\* an exception is logged and the flag is popped
_initiate_sync(sess, fault) ==
    LET r == sync_data(<<UserId>>, sess.session_key, FALSE, 1, fault)
    IN  [session |-> [sess EXCEPT !.items.pii_sync_in_progress = (r.result # "raised")],
         sync |-> r]

\* request.session[redirect_session_key] = request.path
StorePath(sess, path) == [sess EXCEPT !.items.redirect_after_sync = path]

NoSync ==
    [result |-> "none", db |-> backendDb, mem |-> mem, log |-> busLog, visited |-> <<>>]

GateAnswer(response, sess, checked, fresh, sync) ==
    [response |-> response, session |-> sess, checked |-> checked, fresh |-> fresh,
     sync |-> sync]

\* process_request(request): the response ("None" lets the request through,
\* "redirect" sends it to the waiting view), the session afterwards, and
\* whether the freshness check and sync_data ran
process_request(path, authenticated, fault) ==
    IF ~authenticated THEN GateAnswer("None", session, FALSE, FALSE, NoSync)
    ELSE IF \E q \in excluded_paths : StartsWith(path, q)
    THEN GateAnswer("None", session, FALSE, FALSE, NoSync)
    ELSE IF GetAttr(SessionAttributes(session), "pii_sync_in_progress", FALSE)
    THEN IF waiting_view # "" /\ path # reverse(waiting_view)
         THEN GateAnswer("redirect", StorePath(session, path), FALSE, FALSE, NoSync)
         ELSE GateAnswer("None", session, FALSE, FALSE, NoSync)
    ELSE IF ~_check_pii_data(session, frontendDb)
    THEN LET i == _initiate_sync(session, fault)
         IN  IF waiting_view # ""
             THEN GateAnswer("redirect", StorePath(i.session, path), TRUE, FALSE, i.sync)
             ELSE GateAnswer("None", i.session, TRUE, FALSE, i.sync)
    ELSE GateAnswer("None", session, TRUE, TRUE, NoSync)

GateFrame == UNCHANGED <<mode, auto_reconnect, consumerVars, pipeVars, waiting_view, toolVars,
                         restVars>>

\* a request of the session's user reaches the middleware
Request(path, authenticated, fault) ==
    /\ gateHist.requests < MaxRequests
    /\ LET a == process_request(path, authenticated, fault)
       IN  /\ session' = a.session
           /\ backendDb' = a.sync.db
           /\ mem' = a.sync.mem
           /\ busLog' = a.sync.log
           /\ gateHist' = [requests |-> gateHist.requests + 1, path |-> path,
                           gated |-> authenticated
                                       /\ ~\E q \in excluded_paths : StartsWith(path, q),
                           response |-> a.response, checked |-> a.checked,
                           fresh |-> a.fresh, sync |-> a.sync.result]
    /\ UNCHANGED <<frontendDb, now, syncHist>>
    /\ GateFrame

\* an entity of a registered type is published for a session and the
\* Consumer's processing step commits it to the isolated store
Replicate(model, sid) ==
    /\ LET inst == Instance(model, 1, sid, get_expiration_time, "v1", 0)
       IN  frontendDb' = _process_message(publish_model(inst), frontendDb, TRUE).db
    /\ frontendDb' # frontendDb
    /\ UNCHANGED <<now, session, gateHist, syncVars>>
    /\ GateFrame

\* half the session timeout passes
GateTick ==
    /\ Tick(1000 * (session_timeout \div 2), 0)
    /\ UNCHANGED <<frontendDb, session, gateHist, syncVars>>
    /\ GateFrame

(***************************************************************************)
(* Expiry-driven cleanup: the querysets it uses, PIIModel.cleanup_expired  *)
(* and the cleanup_expired_data command.                                   *)
(***************************************************************************)
Min(a, b) == IF a < b THEN a ELSE b

\* model.objects.filter(data_expires_at__lt=t)
Expired(db, model, t) == {r \in db : r.model = model /\ TimeLT(r.data_expires_at, t)}

\* a slice taken without the ordering: any k of the rows
SlicesUnordered(rows, k) ==
    {S \in SUBSET rows : Cardinality(S) = Min(k, Cardinality(rows))}

\* .order_by("data_expires_at")[:k]: the k rows that expire first; rows that
\* expire at the same instant come in whichever order the database returns
Slices(rows, k) ==
    {S \in SUBSET rows :
        /\ Cardinality(S) = Min(k, Cardinality(rows))
        /\ \A r \in S, q \in rows \ S : ~TimeLT(q.data_expires_at, r.data_expires_at)}

\* deleting rows: UserProfile.address is on_delete=SET_NULL, so a profile that
\* points at a deleted Address stays, with its reference cleared
DeleteRows(db, rows) ==
    {IF r.model = "UserProfile" /\ <<"Address", r.ref>> \in {IdOf(q) : q \in rows}
     THEN [r EXCEPT !.ref = 0] ELSE r : r \in db \ rows}

\* QuerySet.delete(): Django refuses it on a sliced queryset ("Cannot use
\* 'limit' or 'offset' with delete()"); otherwise the rows go and their
\* number is returned
QuerySetDelete(db, rows, sliced) ==
    IF sliced
    THEN [raised |-> TRUE, db |-> db, deleted |-> 0]
    ELSE [raised |-> FALSE, db |-> DeleteRows(db, rows), deleted |-> Cardinality(rows)]

\* PIIModel.cleanup_expired(batch_size): .filter(...).order_by(...)[:batch_size].delete()[0]
cleanup_expired(db, model, batch_size, S) == QuerySetDelete(db, S, TRUE)

\* the registry of the process that runs the command (register_model), and
\* every PIIModel subclass that is installed (apps.get_models())
Registries    == {<<>>, <<"Address", "UserProfile">>}
PIISubclasses == <<"Address", "UserProfile">>

\* one pass of the command's "while True" for the model at the head of
\* sw.models, S being the batch the query returned: the counters, the store,
\* and the next model when the loop is left
handle_pass(sw, db, S) ==
    LET model == Head(sw.models)
        count == Cardinality(S)
        r     == IF count = 0 \/ sw.dry_run
                 THEN [raised |-> FALSE, db |-> db,
                       deleted |-> IF count = 0 THEN 0 ELSE count]
                 ELSE QuerySetDelete(db, {q \in db : q.model = model
                                             /\ q.pk \in {x.pk : x \in S}}, FALSE)
        leave == count = 0 \/ count < sw.batch_size
        sw1   == [sw EXCEPT !.model_deleted = @ + r.deleted,
                            !.total_deleted = @ + r.deleted,
                            !.passes = @ + 1]
    IN  [db |-> r.db,
         sweep |-> IF leave
                   THEN [sw1 EXCEPT !.reported[model] = sw1.model_deleted,
                                    !.model_deleted = 0,
                                    !.models = Tail(@),
                                    !.pc = IF Tail(sw.models) = <<>> THEN "done" ELSE "loop"]
                   ELSE sw1]

SweepFrame == UNCHANGED <<mode, auto_reconnect, consumerVars, syncVars, now, pipeVars,
                          gateVars, entityHist, batchHist, routeHist, restVars>>

\* Command.handle(): the options are read and the models chosen; a behaviour
\* runs the command or calls cleanup_expired, not one after the other
SweepStart(batch_size, dry_run, force) ==
    /\ sweep.pc = "idle"
    /\ cleanup.calls = 0
    /\ LET models == IF force THEN PIISubclasses ELSE sweep.registry
       IN  sweep' = [sweep EXCEPT !.pc = IF models = <<>> THEN "done" ELSE "loop",
                                  !.batch_size = batch_size, !.dry_run = dry_run,
                                  !.force = force, !.models = models,
                                  !.before = frontendDb]
    /\ UNCHANGED <<frontendDb, cleanup>>
    /\ SweepFrame

\* Command.handle(): one pass of the loop over the expired rows of a model
\* (a dry run that does not end is followed for MaxSweepPasses passes)
SweepPass ==
    /\ sweep.pc = "loop"
    /\ sweep.dry_run => sweep.passes < MaxSweepPasses
    /\ \E S \in Slices(Expired(frontendDb, Head(sweep.models), now), sweep.batch_size) :
          LET a == handle_pass(sweep, frontendDb, S)
          IN  /\ sweep' = a.sweep
              /\ frontendDb' = a.db
    /\ UNCHANGED cleanup
    /\ SweepFrame

\* a caller runs Model.cleanup_expired(batch_size) while no command runs
CleanupExpired(model, batch_size) ==
    /\ sweep.pc = "idle"
    /\ cleanup.calls < MaxCleanupCalls
    /\ \E S \in Slices(Expired(frontendDb, model, now), batch_size) :
          LET r == cleanup_expired(frontendDb, model, batch_size, S)
          IN  /\ frontendDb' = r.db
              /\ cleanup' = [calls |-> cleanup.calls + 1, model |-> model,
                             batch_size |-> batch_size, before |-> frontendDb,
                             raised |-> r.raised, deleted |-> r.deleted]
    /\ UNCHANGED sweep
    /\ SweepFrame

\* the rows a store may hold when the cleanup starts: expired long ago,
\* expired a moment ago, or not expired
PastTime   == T0
RecentTime == Time(0, 250)
FutureTime == TimeAdd(T0, session_timeout)

CandidateRows ==
    {Instance("Address", pk, "s1", e, "v1", 0) :
        pk \in 1..MaxPk, e \in {PastTime, RecentTime, FutureTime}}
    \cup {Instance("UserProfile", 1, "s1", e, "v1", ref) :
        e \in {PastTime, FutureTime}, ref \in {0, 1}}

SweepStores ==
    {S \in SUBSET CandidateRows : \A r \in S, q \in S : IdOf(r) = IdOf(q) => r = q}

(***************************************************************************)
(* The expiry of one entity: a caller creates it with an expiry of its     *)
(* choice, sync_data and refresh_expiration write the engine's.            *)
(***************************************************************************)
\* the entity the callers of this part work on
EntityIds == {<<"Address", 1>>}

\* the expiry a caller gives a record it creates: now + 30 minutes, or later
CallerExpiries == {TimeAdd(now, 1800), TimeAdd(now, 3600)}

\* save() that writes every column of the instance
UpdateFieldsAll(db, inst) == Save(db, inst)

\* save(update_fields=["data_expires_at"]): one column of the instance's row
UpdateFields(db, inst) ==
    {IF IdOf(r) = IdOf(inst) THEN [r EXCEPT !.data_expires_at = inst.data_expires_at]
     ELSE r : r \in db}

\* PIIModel.refresh_expiration(): the instance and the store afterwards
refresh_expiration(inst, db) ==
    LET i == [inst EXCEPT !.data_expires_at = get_expiration_time]
    IN  [inst |-> i, db |-> UpdateFields(db, i)]

EntityFrame == UNCHANGED <<mode, auto_reconnect, consumerVars, frontendDb, pipeVars,
                           gateVars, sweep, cleanup, batchHist, routeHist, syncHist,
                           restVars>>

EntityRecord(kind, id, writer) ==
    [calls |-> entityHist.calls + 1, op |-> kind, id |-> id,
     prevRows |-> RowsOf(backendDb, id), prevMem |-> mem[id],
     writer |-> writer, writtenAt |-> now, published |-> Len(busLog)]

\* Model.objects.create(session_id=sid, data_expires_at=exp)
CreateEntity(id, sid, exp) ==
    /\ entityHist.calls < MaxEntityOps
    /\ RowsOf(backendDb, id) = {}
    /\ LET inst == [mem[id] EXCEPT !.session_id = sid, !.data_expires_at = exp]
       IN  /\ mem' = [mem EXCEPT ![id] = inst]
           /\ backendDb' = Save(backendDb, inst)
    /\ entityHist' = EntityRecord("create", id, "caller")
    /\ UNCHANGED <<now, busLog>>
    /\ EntityFrame

\* sync_data(instance, session_id) with the defaults include_related=False, depth=1
SyncEntity(id, sid) ==
    /\ entityHist.calls < MaxEntityOps
    /\ LET r == sync_data(<<id>>, sid, FALSE, 1, 0)
       IN  /\ backendDb' = r.db
           /\ mem' = r.mem
           /\ busLog' = r.log
           /\ entityHist' = EntityRecord(IF r.result = "true" THEN "sync" ELSE "refused", id,
                                         IF r.result = "true" THEN "engine"
                                         ELSE entityHist.writer)
    /\ UNCHANGED now
    /\ EntityFrame

\* instance.refresh_expiration() of a persisted instance
RefreshEntity(id) ==
    /\ entityHist.calls < MaxEntityOps
    /\ RowsOf(backendDb, id) # {}
    /\ LET r == refresh_expiration(mem[id], backendDb)
       IN  /\ mem' = [mem EXCEPT ![id] = r.inst]
           /\ backendDb' = r.db
    /\ entityHist' = EntityRecord("refresh", id, "engine")
    /\ UNCHANGED <<now, busLog>>
    /\ EntityFrame

\* time passes
EntityTick(us) ==
    /\ Tick(1, us)
    /\ UNCHANGED <<mem, backendDb, busLog, entityHist>>
    /\ EntityFrame

(***************************************************************************)
(* The command's pass over one model (Address), statement by statement,    *)
(* next to the other writers of the isolated store.  The command opens its *)
(* transaction without choosing an isolation level, so the store's default *)
(* applies: under "read committed" a statement sees and acts on whatever   *)
(* is committed when it runs; under "serializable" a delete of a row that  *)
(* another transaction changed after the command's select is refused and   *)
(* the command's transaction is rolled back.                               *)
(***************************************************************************)
IsolationLevels == {"read committed", "serializable"}

RaceFrame == UNCHANGED <<mode, auto_reconnect, consumerVars, syncVars, now, pipeVars,
                         gateVars, toolVars, relVars>>

\* the Address rows with the given primary keys
AddressRows(db, pks) == {q \in db : q.model = "Address" /\ q.pk \in pks}

\* count = expired.count(); if count == 0: break
RaceCount ==
    /\ race.pc = "idle"
    /\ \E S \in Slices(Expired(frontendDb, "Address", now), race.batch_size) :
          race' = [race EXCEPT !.count = Cardinality(S),
                               !.pc = IF S = {} THEN "done" ELSE "counted"]
    /\ UNCHANGED frontendDb
    /\ RaceFrame

\* with transaction.atomic(): expired_ids = list(expired.values_list("id", flat=True))
RaceSelect ==
    /\ race.pc = "counted"
    /\ \E S \in Slices(Expired(frontendDb, "Address", now), race.batch_size) :
          race' = [race EXCEPT !.expired_ids = {r.pk : r \in S}, !.snapshot = S,
                               !.pc = "selected"]
    /\ UNCHANGED frontendDb
    /\ RaceFrame

\* model.objects.filter(id__in=expired_ids).delete(); then
\* if count < batch_size: break
RaceDelete ==
    /\ race.pc = "selected"
    /\ LET rows == AddressRows(frontendDb, race.expired_ids)
       IN  IF race.isolation = "serializable" /\ rows # race.snapshot
           THEN /\ race' = [race EXCEPT !.pc = "failed", !.gone = {}]
                /\ UNCHANGED frontendDb
           ELSE /\ frontendDb' = QuerySetDelete(frontendDb, rows, FALSE).db
                /\ race' = [race EXCEPT !.gone = rows,
                                        !.pc = IF race.count < race.batch_size
                                               THEN "done" ELSE "idle"]
    /\ RaceFrame

\* another process of the frontend calls refresh_expiration() on a stored row
RaceRefresh(pk) ==
    /\ \E r \in AddressRows(frontendDb, {pk}) :
          frontendDb' = refresh_expiration(r, frontendDb).db
    /\ frontendDb' # frontendDb
    /\ UNCHANGED race
    /\ RaceFrame

\* the Consumer commits a message that carries the record afresh
RaceOverwrite(pk) ==
    /\ LET inst == Instance("Address", pk, "s1", get_expiration_time, "v2", 0)
       IN  frontendDb' = _process_message(publish_model(inst), frontendDb, TRUE).db
    /\ frontendDb' # frontendDb
    /\ UNCHANGED race
    /\ RaceFrame

(***************************************************************************)
(* Publisher.publish_batch.  batchHist.batch_size is                       *)
(* settings.PII_SHIELD["SYNC"]["batch_size"]; heard is the set of the      *)
(* call's publishes (numbered from 1) that found the Consumer subscribed.  *)
(***************************************************************************)
\* Publisher.publish(channel, message) -> redis.publish(...): the number of
\* subscribers that received the k-th message of the call
Receivers(k, heard) == IF k \in heard THEN 1 ELSE 0

\* a batch that is published only when it has outgrown batch_size
BatchFullLate(batch, batch_size) == Len(batch) > batch_size

\* if len(batch) >= batch_size
BatchFull(batch, batch_size) == Len(batch) >= batch_size

\* serialized = serializers.serialize("json", batch); result = self.publish(channel, serialized)
PublishChunk(st, batch, heard) ==
    [batch |-> <<>>,
     log |-> Append(st.log, Published(default_channel, serialize(batch))),
     sent |-> st.sent + 1,
     result |-> Receivers(st.sent + 1, heard)]

\* for instance in instances: batch.append(instance); publish the batch when full
RECURSIVE BatchLoop(_, _, _, _)
BatchLoop(instances, batch_size, heard, st) ==
    IF instances = <<>> THEN st
    ELSE LET batch == Append(st.batch, Head(instances))
         IN  BatchLoop(Tail(instances), batch_size, heard,
                       IF BatchFull(batch, batch_size)
                       THEN PublishChunk(st, batch, heard)
                       ELSE [st EXCEPT !.batch = batch])

\* Publisher.publish_batch(instances): the bus log afterwards and the result
publish_batch(instances, batch_size, heard) ==
    LET st == BatchLoop(instances, batch_size, heard,
                        [batch |-> <<>>, log |-> busLog, sent |-> 0, result |-> 0])
    IN  IF st.batch # <<>> THEN PublishChunk(st, st.batch, heard) ELSE st

\* the instances a caller may put in a batch, and the batches it passes
BatchEntities ==
    {Instance("Address", pk, "s1", T0, "v1", 0) : pk \in 1..MaxPk}
        \cup {Instance("UserProfile", 1, "s1", T0, "v2", 1)}

BatchInputs == UNION {[1..n -> BatchEntities] : n \in 0..MaxBatchLen}

BatchFrame == UNCHANGED <<mode, auto_reconnect, consumerVars, frontendDb, now, pipeVars,
                          gateVars, sweep, cleanup, entityHist, routeHist,
                          backendDb, mem, syncHist, restVars>>

\* a caller in the backend process calls get_publisher().publish_batch(instances),
\* once in a behaviour
PublishBatch(instances, heard) ==
    /\ batchHist.calls = 0
    /\ LET r == publish_batch(instances, batchHist.batch_size, heard)
       IN  /\ busLog' = r.log
           /\ batchHist' = [batchHist EXCEPT !.calls = @ + 1, !.input = instances,
                                             !.heard = heard, !.before = Len(busLog),
                                             !.result = r.result]
    /\ BatchFrame

(***************************************************************************)
(* The database router.  A class is known by its name; Bases gives the     *)
(* class it extends.  ArchivedAddress stands for an application model that *)
(* extends a PII model rather than PIIModel itself.                        *)
(***************************************************************************)
Classes == {"object", "Model", "PIIModel", "Address", "UserProfile", "ArchivedAddress",
            "User"}

Bases ==
    [c \in Classes |->
        CASE c = "object"          -> <<>>
          [] c = "Model"           -> <<"object">>
          [] c = "PIIModel"        -> <<"Model">>
          [] c = "Address"         -> <<"PIIModel">>
          [] c = "UserProfile"     -> <<"PIIModel">>
          [] c = "ArchivedAddress" -> <<"Address">>
          [] OTHER                 -> <<"Model">>]

\* inspect.getmro(model): the class, then the classes it inherits from
RECURSIVE getmro(_)
getmro(c) == IF Bases[c] = <<>> THEN <<c>> ELSE <<c>> \o getmro(Bases[c][1])

\* a test that lets the abstract base through
_is_pii_modelOrBase(model) ==
    \E k \in 1..Len(getmro(model)) : getmro(model)[k] = "PIIModel"

\* PIIRouter._is_pii_model(model): PIIModel in bases and model != PIIModel
_is_pii_model(model) ==
    /\ \E k \in 1..Len(getmro(model)) : getmro(model)[k] = "PIIModel"
    /\ model # "PIIModel"

\* PIIRouter.db_for_read(model) / db_for_write(model): "None" defers to the
\* default database
db_for_read(model)  == IF _is_pii_model(model) THEN "frontend" ELSE "None"

db_for_write(model) == IF _is_pii_model(model) THEN "frontend" ELSE "None"

Operations == {"read", "write"}

RouterFrame == UNCHANGED <<mode, auto_reconnect, consumerVars, frontendDb, syncVars, now,
                           pipeVars, gateVars, sweep, cleanup, entityHist, batchHist,
                           restVars>>

\* the ORM asks the router where a query on a model goes
RouteQuery(model, operation) ==
    /\ routeHist[<<model, operation>>] = "unasked"
    /\ routeHist' = [routeHist EXCEPT ![<<model, operation>>] =
                        IF operation = "read" THEN db_for_read(model)
                        ELSE db_for_write(model)]
    /\ RouterFrame

\* the objects a relation is asked about, by their class
ObjectKinds == {"Address", "ArchivedAddress", "User"}

\* isinstance(obj, PIIModel)
IsInstance(kind, class) == \E k \in 1..Len(getmro(kind)) : getmro(kind)[k] = class

\* PIIRouter.allow_relation(obj1, obj2): "True", "False" or "None" (defer)
allow_relation(obj1, obj2) ==
    IF IsInstance(obj1, "PIIModel") /\ IsInstance(obj2, "PIIModel") THEN "True"
    ELSE IF allow_mixed_relations THEN "True"
    ELSE IF IsInstance(obj1, "PIIModel") \/ IsInstance(obj2, "PIIModel") THEN "False"
    ELSE "None"

RelationFrame == UNCHANGED <<mode, auto_reconnect, consumerVars, frontendDb, syncVars, now,
                             pipeVars, gateVars, toolVars, allow_mixed_relations, race>>

\* the ORM asks the router whether two objects may be related
AskRelation(obj1, obj2) ==
    /\ relationHist[<<obj1, obj2>>] = "unasked"
    /\ relationHist' = [relationHist EXCEPT ![<<obj1, obj2>>] = allow_relation(obj1, obj2)]
    /\ RelationFrame

(***************************************************************************)
(* Initial values of each component.                                       *)
(***************************************************************************)
ConsumerInit ==
    /\ booted = FALSE /\ running = FALSE /\ thread = 0 /\ lock = "free"
    /\ channels = {} /\ inbox = <<>> /\ workers = <<>>
    /\ pc = [c \in Callers |-> "idle"]
    /\ op = [c \in Callers |-> "none"]
    /\ hist = InitHist

SyncInit ==
    /\ backendDb = EmptyDb
    /\ mem = [id \in MemIds |-> Instance(id[1], id[2], "", T0, "v1", 0)]
    /\ busLog = <<>>
    /\ syncHist = [calls |-> 0, result |-> "none", ids |-> <<>>, visited |-> <<>>]

PipeInit ==
    /\ queue = <<>>
    /\ pipeHist = [published |-> 0, sent |-> <<>>, dropped |-> FALSE, failed |-> FALSE,
                   last  |-> [pk \in 1..MaxPk |-> NoInstance],
                   prev  |-> [pk \in 1..MaxPk |-> NoInstance],
                   count |-> [pk \in 1..MaxPk |-> 0]]

GateInit ==
    /\ session = [session_key |-> "s1",
                  items |-> [pii_sync_in_progress |-> FALSE, redirect_after_sync |-> <<>>]]
    /\ gateHist = [requests |-> 0, path |-> <<>>, gated |-> FALSE, response |-> "None",
                   checked |-> FALSE, fresh |-> FALSE, sync |-> "none"]
    /\ waiting_view = ""

SweepInit ==
    /\ sweep = [pc |-> "idle", batch_size |-> 0, dry_run |-> FALSE, force |-> FALSE,
                registry |-> <<>>, models |-> <<>>, model_deleted |-> 0,
                reported |-> [m \in PiiModels |-> 0], total_deleted |-> 0,
                passes |-> 0, before |-> EmptyDb]
    /\ cleanup = [calls |-> 0, model |-> "", batch_size |-> 0, before |-> EmptyDb,
                  raised |-> FALSE, deleted |-> 0]

EntityInit ==
    entityHist = [calls |-> 0, op |-> "none", id |-> <<"", 0>>, prevRows |-> {},
                  prevMem |-> NoInstance, writer |-> "none", writtenAt |-> T0,
                  published |-> 0]

BatchInit ==
    batchHist = [batch_size |-> 1, calls |-> 0, input |-> <<>>, heard |-> {},
                 before |-> 0, result |-> 0]

RouteInit == routeHist = [q \in Classes \X Operations |-> "unasked"]

ToolInit ==
    /\ SweepInit
    /\ EntityInit
    /\ BatchInit
    /\ RouteInit

RelationInit ==
    /\ allow_mixed_relations = FALSE
    /\ relationHist = [q \in ObjectKinds \X ObjectKinds |-> "unasked"]

RaceInit ==
    race = [pc |-> "idle", isolation |-> "read committed", batch_size |-> 1, count |-> 0,
            expired_ids |-> {}, snapshot |-> {}, gone |-> {}]

RestInit == RelationInit /\ RaceInit

Init ==
    /\ mode \in {"unset", "backend"}
    /\ auto_reconnect \in BOOLEAN
    /\ now = T0
    /\ frontendDb = EmptyDb
    /\ ConsumerInit /\ SyncInit /\ PipeInit /\ GateInit /\ ToolInit /\ RestInit

Next ==
    \/ \E ok \in BOOLEAN : initialize(ok)
    \/ \E c \in Callers : CallStart(c)
    \/ \E c \in Callers : CallStop(c)
    \/ \E c \in Callers : CallRestart(c)
    \/ \E c \in Callers, arg \in SubscribeArgs, ok \in BOOLEAN : CallSubscribe(c, arg, ok)
    \/ \E c \in Callers : StartMode(c)
    \/ \E c \in Callers : StartLock(c)
    \/ \E c \in Callers : StartCheck(c)
    \/ \E c \in Callers : StartSet(c)
    \/ \E c \in Callers : StopLock(c)
    \/ \E c \in Callers : StopCheck(c)
    \/ \E c \in Callers : StopJoin(c)
    \/ \E w \in 1..Len(workers) : ListenRecv(w)
    \/ \E w \in 1..Len(workers) : ListenError(w)
    \/ \E w \in 1..Len(workers) : ListenEnd(w)
    \/ \E w \in 1..Len(workers), dbOk \in BOOLEAN : ListenLoop(w, dbOk)
    \/ \E data \in Payloads : BusPublish(default_channel, data)

Spec == Init /\ [][Next]_vars

(***************************************************************************)
(* Specification SpecSync: a backend caller and sync_data.                 *)
(***************************************************************************)
InitSync ==
    /\ mode \in Modes
    /\ auto_reconnect = TRUE
    /\ now = Time(1, 250)
    /\ frontendDb = EmptyDb
    /\ backendDb \in {EmptyDb, {EarlierRow}}
    /\ mem = [id \in MemIds |-> Instance(id[1], id[2], "", T0, "v1", 0)]
    /\ busLog = <<>>
    /\ syncHist = [calls |-> 0, result |-> "none", ids |-> <<>>, visited |-> <<>>]
    /\ ConsumerInit /\ PipeInit /\ GateInit /\ ToolInit /\ RestInit

NextSync ==
    \/ \E ids \in InstanceLists, sid \in Sessions, rel \in RelatedOptions,
          fault \in Faults :
            SyncData(ids, sid, rel[1], rel[2], fault)
    \/ \E id \in Editable, val \in Values : EditValue(id, val)
    \/ \E pk \in 0..MaxPk : SetAddress(pk)

SpecSync == InitSync /\ [][NextSync]_vars

(***************************************************************************)
(* Specification SpecPipeline: publish_model -> bus -> _process_message.   *)
(* The Consumer is as initialize() leaves it: running, and subscribed to   *)
(* the default channel unless the subscription failed.                     *)
(***************************************************************************)
InitPipeline ==
    /\ mode = "unset"
    /\ auto_reconnect = TRUE
    /\ now = T0
    /\ frontendDb = EmptyDb
    /\ booted = TRUE /\ running = TRUE /\ thread = 1 /\ lock = "free"
    /\ channels \in {{}, {FullChannel(default_channel)}}
    /\ inbox = <<>> /\ workers = <<NewWorker>>
    /\ pc = [c \in Callers |-> "idle"]
    /\ op = [c \in Callers |-> "none"]
    /\ hist = [InitHist EXCEPT !.startTrue = 1, !.everSubscribed = channels # {}]
    /\ SyncInit /\ PipeInit /\ GateInit /\ ToolInit /\ RestInit

NextPipeline ==
    \/ \E pk \in 1..MaxPk, sid \in Sessions, val \in Values : PublishEntity(pk, sid, val)
    \/ \E dbOk \in BOOLEAN : ProcessNext(dbOk)
    \/ \E us \in MicroParts : PipeTick(us)

SpecPipeline == InitPipeline /\ [][NextPipeline]_vars

(***************************************************************************)
(* Specification SpecGate: the requests of one session at the frontend,    *)
(* the Consumer committing records, and time passing.                      *)
(***************************************************************************)
InitGate ==
    /\ mode \in {"unset", "frontend"}
    /\ auto_reconnect = TRUE
    /\ now = T0
    /\ frontendDb = EmptyDb
    /\ session = [session_key |-> "s1",
                  items |-> [pii_sync_in_progress |-> FALSE, redirect_after_sync |-> <<>>]]
    /\ gateHist = [requests |-> 0, path |-> <<>>, gated |-> FALSE, response |-> "None",
                   checked |-> FALSE, fresh |-> FALSE, sync |-> "none"]
    /\ waiting_view \in {"", "pii_waiting"}
    /\ ConsumerInit /\ SyncInit /\ PipeInit /\ ToolInit /\ RestInit

NextGate ==
    \/ \E path \in Paths, authenticated \in BOOLEAN, fault \in 0..2 :
          Request(path, authenticated, fault)
    \/ \E model \in PiiModels, sid \in Sessions : Replicate(model, sid)
    \/ GateTick

SpecGate == InitGate /\ [][NextGate]_vars

(***************************************************************************)
(* Specification SpecSweep: a store of expired and unexpired rows, the     *)
(* cleanup command and PIIModel.cleanup_expired.  The clock stands at one  *)
(* instant, so a row is expired or not for the whole behaviour.            *)
(***************************************************************************)
InitSweep ==
    /\ mode = "frontend"
    /\ auto_reconnect = TRUE
    /\ now = Time(1, 0)
    /\ frontendDb \in SweepStores
    /\ sweep \in {[pc |-> "idle", batch_size |-> 0, dry_run |-> FALSE, force |-> FALSE,
                    registry |-> g, models |-> <<>>, model_deleted |-> 0,
                    reported |-> [m \in PiiModels |-> 0], total_deleted |-> 0,
                    passes |-> 0, before |-> EmptyDb] : g \in Registries}
    /\ cleanup = [calls |-> 0, model |-> "", batch_size |-> 0, before |-> EmptyDb,
                  raised |-> FALSE, deleted |-> 0]
    /\ EntityInit /\ BatchInit /\ RouteInit
    /\ ConsumerInit /\ SyncInit /\ PipeInit /\ GateInit /\ RestInit

NextSweep ==
    \/ \E batch_size \in 1..MaxBatchSize, dry_run \in BOOLEAN, force \in BOOLEAN :
          SweepStart(batch_size, dry_run, force)
    \/ SweepPass
    \/ \E model \in PiiModels, batch_size \in 1..MaxBatchSize :
          CleanupExpired(model, batch_size)

SpecSweep == InitSweep /\ [][NextSweep]_vars

\* the command is a running process: a pass that can be made is made
SpecSweepFair == SpecSweep /\ WF_vars(SweepPass)

(***************************************************************************)
(* Specification SpecEntity: one entity, its creation by a caller, its     *)
(* sync by the backend, its refresh, the caller's edits in memory, and     *)
(* time passing.                                                           *)
(***************************************************************************)
InitEntity ==
    /\ mode \in Modes
    /\ auto_reconnect = TRUE
    /\ now = T0
    /\ frontendDb = EmptyDb
    /\ SweepInit /\ EntityInit /\ BatchInit /\ RouteInit
    /\ ConsumerInit /\ SyncInit /\ PipeInit /\ GateInit /\ RestInit

NextEntity ==
    \/ \E id \in EntityIds, sid \in Sessions, exp \in CallerExpiries :
          CreateEntity(id, sid, exp)
    \/ \E id \in EntityIds, sid \in Sessions : SyncEntity(id, sid)
    \/ \E id \in EntityIds : RefreshEntity(id)
    \/ \E id \in EntityIds, val \in Values : EditValue(id, val)
    \/ \E us \in MicroParts : EntityTick(us)

SpecEntity == InitEntity /\ [][NextEntity]_vars

(***************************************************************************)
(* Specification SpecBatch: one publish_batch call on a sequence of         *)
(* instances, under each batch size.                                       *)
(***************************************************************************)
InitBatch ==
    /\ mode = "backend"
    /\ auto_reconnect = TRUE
    /\ now = T0
    /\ frontendDb = EmptyDb
    /\ batchHist \in {[batch_size |-> b, calls |-> 0, input |-> <<>>, heard |-> {},
                        before |-> 0, result |-> 0] : b \in 1..MaxBatchSize}
    /\ SweepInit /\ EntityInit /\ RouteInit
    /\ ConsumerInit /\ SyncInit /\ PipeInit /\ GateInit /\ RestInit

NextBatch ==
    /\ batchHist.calls = 0
    /\ \E instances \in BatchInputs, heard \in SUBSET (1..MaxBatchLen) :
          PublishBatch(instances, heard)

SpecBatch == InitBatch /\ [][NextBatch]_vars

(***************************************************************************)
(* Specification SpecWalk: the caller points the profile at an Address or  *)
(* at none, and calls sync_data once with include_related and a depth.     *)
(***************************************************************************)
InitWalk ==
    /\ mode \in {"unset", "backend"}
    /\ auto_reconnect = TRUE
    /\ now = Time(1, 250)
    /\ frontendDb = EmptyDb
    /\ ConsumerInit /\ SyncInit /\ PipeInit /\ GateInit /\ ToolInit /\ RestInit

NextWalk ==
    \/ \E ids \in InstanceLists, sid \in Sessions, include_related \in BOOLEAN,
          depth \in 0..MaxDepth :
            WalkSync(ids, sid, include_related, depth)
    \/ \E pk \in 0..MaxPk : SetAddress(pk)

SpecWalk == InitWalk /\ [][NextWalk]_vars

(***************************************************************************)
(* Specification SpecRouter: the queries of a process, each routed once    *)
(* per model and operation.                                                *)
(***************************************************************************)
InitRouter ==
    /\ mode = "frontend"
    /\ auto_reconnect = TRUE
    /\ now = T0
    /\ frontendDb = EmptyDb
    /\ ConsumerInit /\ SyncInit /\ PipeInit /\ GateInit /\ ToolInit /\ RestInit

NextRouter == \E model \in Classes, operation \in Operations : RouteQuery(model, operation)

SpecRouter == InitRouter /\ [][NextRouter]_vars

(***************************************************************************)
(* Specification SpecRelation: the relation checks of a process, each pair *)
(* of objects asked once, with the mixed-relations setting on or off.      *)
(***************************************************************************)
InitRelation ==
    /\ mode = "frontend"
    /\ auto_reconnect = TRUE
    /\ now = T0
    /\ frontendDb = EmptyDb
    /\ allow_mixed_relations \in BOOLEAN
    /\ relationHist = [q \in ObjectKinds \X ObjectKinds |-> "unasked"]
    /\ RaceInit
    /\ ConsumerInit /\ SyncInit /\ PipeInit /\ GateInit /\ ToolInit

NextRelation == \E obj1 \in ObjectKinds, obj2 \in ObjectKinds : AskRelation(obj1, obj2)

SpecRelation == InitRelation /\ [][NextRelation]_vars

(***************************************************************************)
(* Specification SpecRace: the command's pass over the Address rows next   *)
(* to refresh_expiration and the Consumer writing the same rows.           *)
(***************************************************************************)
InitRace ==
    /\ mode = "frontend"
    /\ auto_reconnect = TRUE
    /\ now = Time(1, 0)
    /\ frontendDb \in {S \in SweepStores : \A r \in S : r.model = "Address"}
    /\ race \in {[pc |-> "idle", isolation |-> i, batch_size |-> b, count |-> 0,
                   expired_ids |-> {}, snapshot |-> {}, gone |-> {}] :
                      i \in IsolationLevels, b \in 1..MaxBatchSize}
    /\ RelationInit
    /\ ConsumerInit /\ SyncInit /\ PipeInit /\ GateInit /\ ToolInit

NextRace ==
    \/ RaceCount
    \/ RaceSelect
    \/ RaceDelete
    \/ \E pk \in 1..MaxPk : RaceRefresh(pk)
    \/ \E pk \in 1..MaxPk : RaceOverwrite(pk)

SpecRace == InitRace /\ [][NextRace]_vars

(***************************************************************************)
(* Properties of the Consumer (specification Spec).                        *)
(***************************************************************************)
StartReturnsFalse(c) == pc[c] \in {"start_mode", "start_check"} /\ pc'[c] = "idle"

StartReturnsTrue(c) == pc[c] = "start_set" /\ pc'[c] = "idle"

StopReturnsTrue(c) == pc[c] = "stop_join" /\ op[c] = "stop" /\ pc'[c] = "idle"

\* C1: a data message whose processing keeps failing is attempted at most
\* max_retries times by the listener (and is then dropped).
C1_AttemptsBounded ==
    \A w \in 1..Len(workers) :
        workers[w].msg.type = "message" => workers[w].calls <= max_retries

\* C4: start() that finds the wrong role or a running Consumer returns False
\* and leaves the running flag, the thread and the workers alone; a start()
\* that returns True found the Consumer stopped, set the flag and spawned
\* exactly one listener; between two stops at most one start() succeeds, and
\* a start() is refused at the running check only when another has succeeded.
C4_StartOnce ==
    /\ [](/\ Len(workers) = hist.startTrue
          /\ Len(workers) = hist.stopCleared + (IF running THEN 1 ELSE 0))
    /\ [][\A c \in Callers :
            /\ StartReturnsFalse(c) =>
                 /\ UNCHANGED <<running, thread, workers>>
                 /\ SettingsMode("frontend") # "frontend" \/ running
            /\ (pc[c] = "start_mode" /\ pc'[c] = "start_lock") =>
                 SettingsMode("frontend") = "frontend"
            /\ StartReturnsTrue(c) =>
                 /\ ~running /\ running'
                 /\ Len(workers') = Len(workers) + 1
                 /\ thread' = Len(workers')
                 /\ workers'[thread'].st = "recv"]_vars

\* C4 witness: two start() calls on a Consumer that initialize() left stopped,
\* one returned True and spawned the only listener, the other returned False.
C4_Witness ==
    /\ SettingsMode("frontend") = "frontend" /\ ~auto_reconnect
    /\ hist.startTrue = 1 /\ hist.startFalse /\ hist.stopCleared = 0
    /\ running /\ Len(workers) = 1
    /\ \A c \in Callers : pc[c] = "idle"

\* C5: when stop() returns True the running flag is False and the
\* subscription set is empty.
C5_StopLeavesNothingSubscribed ==
    [][\A c \in Callers : StopReturnsTrue(c) => (~running' /\ channels' = {})]_vars

\* C6: a start() that succeeds after a stop(), on a Consumer that had been
\* subscribed, leaves the running Consumer subscribed to at least one channel.
C6_StartedIsSubscribed ==
    [][\A c \in Callers :
         (StartReturnsTrue(c) /\ hist.stopCleared >= 1 /\ hist.everSubscribed)
             => channels' # {}]_vars

(***************************************************************************)
(* Properties of sync_data (specification SpecSync).                       *)
(***************************************************************************)
\* a step that is one sync_data call
SyncStep == syncHist'.calls # syncHist.calls

\* the instances of the call: the ones passed and the related ones it walked
CallInstances(h) ==
    {h.ids[k] : k \in 1..Len(h.ids)} \cup {h.visited[k] : k \in 1..Len(h.visited)}

\* C7: sync_data called in a process whose role is not the source role
\* returns False, modifies no instance field, persists nothing to the
\* secure store and publishes nothing.
C7_RefusedOutsideSourceRole ==
    [][(SyncStep /\ SettingsMode("backend") # "backend")
          => /\ syncHist'.result = "false"
             /\ mem' = mem
             /\ backendDb' = backendDb
             /\ busLog' = busLog]_vars

\* C7 witness: a call with a non-empty instance list was refused in the
\* frontend role.
C7_Witness ==
    /\ mode = "frontend"
    /\ syncHist.calls = 1 /\ syncHist.result = "false"
    /\ Len(syncHist.ids) = 2

\* C8: a sync_data call in the source role that raises leaves the secure
\* store exactly as it was before the call; a call that returns True has
\* walked every instance passed, and every instance of the call is the one
\* row of its identity in the secure store and was published during the call.
C8_AllOrNothing ==
    [][(SyncStep /\ SettingsMode("backend") = "backend")
          => /\ syncHist'.result \in {"true", "raised"}
             /\ syncHist'.result = "raised" => backendDb' = backendDb
             /\ syncHist'.result = "true" =>
                  /\ \A k \in 1..Len(syncHist'.ids) :
                        \E j \in 1..Len(syncHist'.visited) :
                            syncHist'.visited[j] = syncHist'.ids[k]
                  /\ \A id \in CallInstances(syncHist') :
                        /\ RowsOf(backendDb', id) = {mem'[id]}
                        /\ \E j \in (Len(busLog) + 1)..Len(busLog') :
                               busLog'[j] = publish_model(mem'[id])]_vars

\* C8 witness: a call that had saved and published the Address of a profile
\* and then failed; the secure store holds the earlier row only.
C8_Witness ==
    /\ syncHist.result = "raised"
    /\ Len(syncHist.visited) >= 1
    /\ <<"Address", 1>> \in CallInstances(syncHist)
    /\ Len(busLog) >= 1
    /\ backendDb = {EarlierRow}

(***************************************************************************)
(* Properties of the pipeline (specification SpecPipeline).                *)
(***************************************************************************)
\* C9 as stated: once the Consumer has processed the message of a published
\* entity, the isolated store holds a record of the same identity whose
\* domain fields, session_id and data_expires_at equal the values the
\* instance had at publish time.
C9_RoundTripExact ==
    \A pk \in 1..MaxPk :
        pipeHist.count[pk] >= 1 =>
            \E r \in frontendDb :
                /\ IdOf(r) = IdOf(pipeHist.last[pk])
                /\ r.value = pipeHist.last[pk].value
                /\ r.ref = pipeHist.last[pk].ref
                /\ r.session_id = pipeHist.last[pk].session_id
                /\ r.data_expires_at = pipeHist.last[pk].data_expires_at

\* C9 amended: ... whose domain fields and session_id equal the values the
\* instance had at publish time and whose data_expires_at equals the
\* publish-time value cut to whole milliseconds.
C9_RoundTripToMillisecond ==
    \A pk \in 1..MaxPk :
        pipeHist.count[pk] >= 1 =>
            \E r \in frontendDb :
                /\ IdOf(r) = IdOf(pipeHist.last[pk])
                /\ r.value = pipeHist.last[pk].value
                /\ r.ref = pipeHist.last[pk].ref
                /\ r.session_id = pipeHist.last[pk].session_id
                /\ r.data_expires_at.ms = pipeHist.last[pk].data_expires_at.ms
                /\ r.data_expires_at.us = 0

\* C9 witness: an entity published when the clock showed a fraction of a
\* millisecond has been processed, after a failed attempt.
C9_Witness ==
    /\ pipeHist.count[1] = 1 /\ pipeHist.failed
    /\ pipeHist.last[1].data_expires_at.us # 0
    /\ queue = <<>>

\* C10: after two publishes of the same identity, both processed in publish
\* order, the isolated store holds exactly one record of that identity, with
\* the domain fields and session_id of the later publish and the expiry its
\* message carried.
C10_LatestWins ==
    \A pk \in 1..MaxPk :
        pipeHist.count[pk] >= 2 =>
            \E r \in frontendDb :
                /\ RowsOf(frontendDb, <<"Address", pk>>) = {r}
                /\ r.value = pipeHist.last[pk].value
                /\ r.session_id = pipeHist.last[pk].session_id
                /\ r.data_expires_at = EncodeDateTime(pipeHist.last[pk].data_expires_at)

\* C10 witness: the same identity was published twice with different values,
\* sessions and expiry, and both messages have been processed.
C10_Witness ==
    /\ pipeHist.count[1] = 2 /\ queue = <<>>
    /\ pipeHist.prev[1].value # pipeHist.last[1].value
    /\ pipeHist.prev[1].session_id # pipeHist.last[1].session_id
    /\ pipeHist.prev[1].data_expires_at.ms < pipeHist.last[1].data_expires_at.ms

(***************************************************************************)
(* Properties of the request gate (specification SpecGate).                *)
(***************************************************************************)
\* a step that is one request passing the middleware
GateStep == gateHist'.requests # gateHist.requests

\* the isolated store holds no record of the session
HoldsNone(db, sid) == \A r \in db : r.session_id # sid

\* the isolated store holds, for every registered type, a record of the
\* session that expires session_timeout from now
AllFresh(db, sid) ==
    \A model \in RegisteredModels :
        \E r \in db : /\ r.model = model /\ r.session_id = sid
                      /\ r.data_expires_at = TimeAdd(now, session_timeout)

\* C2: with a waiting view configured and sync_data not failing, a gated
\* request of a session without any record fails the freshness check, sets
\* the sync-in-progress flag and is deferred to the waiting view; a gated
\* request made once the store holds a fresh record of every registered
\* type passes the freshness check, proceeds, and leaves the flag cleared.
C2_GateScenario ==
    [][(GateStep /\ gateHist'.gated /\ waiting_view # "" /\ gateHist'.sync # "raised")
          => /\ (HoldsNone(frontendDb, session.session_key)
                    /\ ~session.items.pii_sync_in_progress)
                  => /\ gateHist'.checked /\ ~gateHist'.fresh
                     /\ session'.items.pii_sync_in_progress
                     /\ gateHist'.response = "redirect"
             /\ AllFresh(frontendDb, session.session_key)
                  => /\ gateHist'.fresh
                     /\ gateHist'.response = "None"
                     /\ ~session'.items.pii_sync_in_progress]_vars

\* C3: with a waiting view configured, a gated request of a session whose
\* sync-in-progress flag is set is deferred to the waiting view without the
\* freshness check and without sync_data, unless it is a request for the
\* waiting view itself, which passes.
C3_InProgressDefers ==
    [][(GateStep /\ gateHist'.gated /\ waiting_view # ""
           /\ session.items.pii_sync_in_progress)
          => /\ ~gateHist'.checked
             /\ gateHist'.sync = "none"
             /\ gateHist'.response =
                   (IF gateHist'.path = WaitingPath THEN "None" ELSE "redirect")]_vars

\* what the freshness check is to answer: every registered type has a
\* record of the session, and the session's records of the type expire after
\* now + refresh_threshold
DataIsFresh(db, sid) ==
    \A model \in RegisteredModels :
        /\ \E r \in db : r.model = model /\ r.session_id = sid
        /\ \A r \in db :
              (r.model = model /\ r.session_id = sid)
              => TimeLT(TimeAdd(now, refresh_threshold), r.data_expires_at)

\* C15: the freshness check of a session answers true exactly when every
\* registered type has a record of the session in the isolated store and the
\* session's records of that type expire after now + refresh_threshold.
C15_FreshnessCheckExact ==
    [][(GateStep /\ gateHist'.checked)
          => (gateHist'.fresh <=> DataIsFresh(frontendDb, session.session_key))]_vars

\* the freshness check cannot run: an exception is raised inside it
CheckRaises == ImportRaises("get_registered_models", PublisherExports)

\* C16 (as stated): an error raised while the freshness check runs makes the
\* check answer false, and the gate then triggers a sync and defers the
\* request instead of serving it.
C16_CheckErrorDefers ==
    [][(GateStep /\ gateHist'.checked /\ CheckRaises)
          => /\ ~gateHist'.fresh
             /\ gateHist'.sync # "none"
             /\ gateHist'.response = "redirect"]_vars

\* C16 (amended): an error raised while the freshness check runs makes the
\* check answer false, and the gate then triggers a sync; it defers the
\* request to the waiting view when one is configured, and lets the
\* request through when none is.
C16_CheckErrorFailsClosed ==
    [][(GateStep /\ gateHist'.checked /\ CheckRaises)
          => /\ ~gateHist'.fresh
             /\ gateHist'.sync # "none"
             /\ gateHist'.response = (IF waiting_view # "" THEN "redirect" ELSE "None")
             /\ waiting_view # "" => session'.items.redirect_after_sync = gateHist'.path]_vars

\* the check could not run on a store that held fresh records of every type,
\* and the request was deferred after a sync was triggered
C16_Witness ==
    /\ CheckRaises
    /\ gateHist.checked /\ ~gateHist.fresh
    /\ gateHist.sync # "none"
    /\ gateHist.response = "redirect"
    /\ AllFresh(frontendDb, session.session_key)

\* C17: when the sync the gate triggers fails with an error, the gate
\* answers the request all the same and the session's sync-in-progress flag
\* is cleared when the request completes.
C17_FailedTriggerClearsFlag ==
    [][(GateStep /\ gateHist'.sync = "raised")
          => /\ ~session'.items.pii_sync_in_progress
             /\ gateHist'.response \in {"redirect", "None"}]_vars

\* a triggered sync raised, the request was deferred and the flag is clear
C17_Witness ==
    /\ gateHist.sync = "raised"
    /\ gateHist.response = "redirect"
    /\ ~session.items.pii_sync_in_progress

(***************************************************************************)
(* Properties of the cleanup (specification SpecSweep).                    *)
(***************************************************************************)
\* the identities of a model's rows in a store
IdsIn(db, model) == {IdOf(r) : r \in {q \in db : q.model = model}}

\* N and the unexpired identities of a model in the store a cleanup started on
ExpiredCount(db, model) == Cardinality(Expired(db, model, now))

UnexpiredIds(db, model) == IdsIn(db, model) \ IdsIn(Expired(db, model, now), model)

\* the models a finished command went over
Swept == IF sweep.force THEN PiiModels
         ELSE {sweep.registry[i] : i \in 1..Len(sweep.registry)}

\* the expired rows of every model the command goes over
ExpiredTotal(db) ==
    Cardinality(UNION {Expired(db, model, now) : model \in Swept})

\* C11: on a store with N expired and M unexpired rows of a type, a cleanup
\* with batch_size >= N -- the command without dry-run, or
\* PIIModel.cleanup_expired -- deletes exactly the N expired rows, reports N
\* and leaves the M unexpired rows in place.
C11_CleanupDeletesExpired ==
    /\ \A model \in Swept :
          (sweep.pc = "done" /\ ~sweep.dry_run
              /\ sweep.batch_size >= ExpiredCount(sweep.before, model))
          => /\ sweep.reported[model] = ExpiredCount(sweep.before, model)
             /\ IdsIn(frontendDb, model) = UnexpiredIds(sweep.before, model)
    /\ (cleanup.calls > 0
            /\ cleanup.batch_size >= ExpiredCount(cleanup.before, cleanup.model))
       => /\ ~cleanup.raised
          /\ cleanup.deleted = ExpiredCount(cleanup.before, cleanup.model)
          /\ IdsIn(frontendDb, cleanup.model) = UnexpiredIds(cleanup.before, cleanup.model)

\* C12: a dry-run of the command over N expired rows of a type, with any
\* batch_size >= N (batch_size = N included), terminates, deletes nothing and
\* reports exactly N for the type and in total: the count never passes N
\* while the command runs, and is N when it is done.
C12_DryRunReportsExactly ==
    (sweep.pc # "idle" /\ sweep.dry_run)
    => /\ frontendDb = sweep.before
       /\ \A model \in Swept :
             sweep.batch_size >= ExpiredCount(sweep.before, model)
             => /\ (sweep.models # <<>> /\ Head(sweep.models) = model)
                       => sweep.model_deleted <= ExpiredCount(sweep.before, model)
                /\ sweep.reported[model] <= ExpiredCount(sweep.before, model)
                /\ sweep.pc = "done"
                       => sweep.reported[model] = ExpiredCount(sweep.before, model)
       /\ (\A model \in Swept : sweep.batch_size >= ExpiredCount(sweep.before, model))
          => (sweep.pc = "done" => sweep.total_deleted = ExpiredTotal(sweep.before))

(***************************************************************************)
(* Properties of an entity's expiry (specification SpecEntity).            *)
(***************************************************************************)
RefreshStep == entityHist'.calls = entityHist.calls + 1 /\ entityHist'.op = "refresh"

SyncedStep == entityHist'.calls = entityHist.calls + 1 /\ entityHist'.op = "sync"

\* every field of an instance but data_expires_at
OtherFields(inst) == <<inst.model, inst.pk, inst.session_id, inst.value, inst.ref>>

\* refresh leaves every field but data_expires_at as it was, in memory and in
\* the store
RefreshKeepsOtherFields ==
    LET id == entityHist'.id
    IN  /\ OtherFields(mem'[id]) = OtherFields(mem[id])
        /\ {OtherFields(r) : r \in RowsOf(backendDb', id)}
               = {OtherFields(r) : r \in RowsOf(backendDb, id)}
        /\ \A q \in PiiModels \X (1..MaxPk) :
               q # id => RowsOf(backendDb', q) = RowsOf(backendDb, q)

\* C13 (as stated): after refresh_expiration the stored data_expires_at of a
\* persisted entity is strictly greater than its previous value, and every
\* other field, in memory and in the store, is unchanged.
C13_RefreshStrictlyLater ==
    [][RefreshStep =>
          /\ \A old \in RowsOf(backendDb, entityHist'.id),
                new \in RowsOf(backendDb', entityHist'.id) :
                 TimeLT(old.data_expires_at, new.data_expires_at)
          /\ RefreshKeepsOtherFields]_vars

\* C13 (amended): after refresh_expiration the stored and the in-memory
\* data_expires_at are now + the session timeout -- strictly greater than the
\* previous value when that was written by the engine at an earlier clock
\* value -- and every other field, in memory and in the store, is unchanged.
C13_RefreshWritesExpiration ==
    [][RefreshStep =>
          /\ mem'[entityHist'.id].data_expires_at = TimeAdd(now, session_timeout)
          /\ \A old \in RowsOf(backendDb, entityHist'.id),
                new \in RowsOf(backendDb', entityHist'.id) :
                 /\ new.data_expires_at = TimeAdd(now, session_timeout)
                 /\ (entityHist.writer = "engine" /\ TimeLT(entityHist.writtenAt, now))
                        => TimeLT(old.data_expires_at, new.data_expires_at)
          /\ RowsOf(backendDb', entityHist'.id) # {}
          /\ RefreshKeepsOtherFields]_vars

\* a refresh of an entity whose memory copy had been edited, after the engine
\* wrote its expiry at an earlier clock value
C13_Witness ==
    /\ entityHist.op = "refresh"
    /\ entityHist.prevMem.value
           \notin {r.value : r \in entityHist.prevRows}
    /\ \E r \in RowsOf(backendDb, entityHist.id), old \in entityHist.prevRows :
           /\ TimeLT(old.data_expires_at, r.data_expires_at)
           /\ r.value = old.value

\* now + T, exactly: T seconds later, the same microseconds
ExactExpiration == [ms |-> now.ms + 1000 * 1800, us |-> now.us]

\* C14: every data_expires_at the engine writes is now + the session timeout
\* (1800 seconds), exactly: refresh_expiration writes it, and sync_data puts it
\* on the instance -- whatever the caller had put there -- before it saves
\* and publishes the instance.
C14_ExpiryIsNowPlusTimeout ==
    [][/\ get_expiration_time = ExactExpiration
       /\ RefreshStep =>
             /\ mem'[entityHist'.id].data_expires_at = ExactExpiration
             /\ \A r \in RowsOf(backendDb', entityHist'.id) :
                    r.data_expires_at = ExactExpiration
       /\ SyncedStep =>
             /\ mem'[entityHist'.id].data_expires_at = ExactExpiration
             /\ RowsOf(backendDb', entityHist'.id) = {mem'[entityHist'.id]}
             /\ Len(busLog') = Len(busLog) + 1
             /\ busLog'[Len(busLog')] = publish_model(mem'[entityHist'.id])]_vars

\* sync_data ran on an instance whose caller had given it a later expiry, at
\* a clock value with microseconds
C14_Witness ==
    /\ entityHist.op = "sync"
    /\ now.us # 0
    /\ entityHist.writtenAt = now
    /\ TimeLT(mem[entityHist.id].data_expires_at, entityHist.prevMem.data_expires_at)
    /\ RowsOf(backendDb, entityHist.id) = {mem[entityHist.id]}

(***************************************************************************)
(* Properties of publish_batch (specification SpecBatch).                  *)
(***************************************************************************)
\* the messages the last publish_batch call published, in publish order
BatchMessages == SubSeq(busLog, batchHist.before + 1, Len(busLog))

\* the entities of a sequence of messages, in order
RECURSIVE EntitiesOf(_)
EntitiesOf(msgs) ==
    IF msgs = <<>> THEN <<>> ELSE Head(msgs).data.objs \o EntitiesOf(Tail(msgs))

\* ceil(n / b)
CeilDiv(n, b) == (n + b - 1) \div b

\* C18: publish_batch on n entities with batch size b >= 1 publishes exactly
\* ceil(n / b) messages on the channel, each of at most b entities, whose
\* entities in publish order are the input sequence; it returns the receiver
\* count of the last publish, and 0 with nothing published when n = 0.
C18_BatchChunks ==
    batchHist.calls > 0
    => LET n == Len(batchHist.input)
           b == batchHist.batch_size
       IN  /\ Len(BatchMessages) = CeilDiv(n, b)
           /\ \A k \in 1..Len(BatchMessages) :
                 /\ BatchMessages[k].channel = FullChannel(default_channel)
                 /\ BatchMessages[k].type = "message"
                 /\ BatchMessages[k].data.json
                 /\ Len(BatchMessages[k].data.objs) \in 1..b
           /\ EntitiesOf(BatchMessages)
                 = [k \in 1..n |-> SerializeOne(batchHist.input[k])]
           /\ batchHist.result
                 = (IF n = 0 THEN 0
                    ELSE IF Len(BatchMessages) \in batchHist.heard THEN 1 ELSE 0)
           /\ n = 0 => busLog = SubSeq(busLog, 1, batchHist.before)

\* a call whose input is not a whole number of batches, and whose last
\* publish alone found a subscriber
C18_Witness ==
    /\ batchHist.calls > 0
    /\ batchHist.batch_size > 1
    /\ Len(batchHist.input) > batchHist.batch_size
    /\ Len(batchHist.input) % batchHist.batch_size # 0
    /\ Len(BatchMessages) = 2
    /\ batchHist.heard = {2}
    /\ batchHist.result = 1

(***************************************************************************)
(* Properties of the relation walk (specification SpecWalk).               *)
(***************************************************************************)
WalkStep == syncHist.calls = 0 /\ syncHist'.calls = 1

\* the instances one hop from an instance in the caller's graph m, over the
\* relations of the models in either direction: UserProfile.user
\* (one-to-one), UserProfile.address (many-to-one) and its reverse, the
\* profiles of an Address (one-to-many)
Neighbours(id, m) ==
    {q \in MemIds :
        \/ id = <<"UserProfile", 1>> /\ q = UserId
        \/ id = UserId /\ q = <<"UserProfile", 1>>
        \/ id = <<"UserProfile", 1>> /\ q = <<"Address", m[id].ref>>
        \/ q = <<"UserProfile", 1>> /\ id = <<"Address", m[q].ref>>}

\* the instances within d hops of a set of instances
RECURSIVE WithinHops(_, _, _)
WithinHops(ids, d, m) ==
    IF d = 0 THEN ids
    ELSE WithinHops(ids \cup UNION {Neighbours(id, m) : id \in ids}, d - 1, m)

\* C19: sync_data with include_related and depth d persists and publishes
\* the given instances and the instances reachable from them over
\* one-to-many, many-to-many, many-to-one and one-to-one relations within d
\* hops, and none farther; with include_related false, the given instances
\* only.
C19_RelatedWithinDepth ==
    [][WalkStep =>
          LET h      == syncHist'
              given  == {h.ids[k] : k \in 1..Len(h.ids)}
              walked == {h.visited[k] : k \in 1..Len(h.visited)}
          IN  /\ h.result = "true"
              /\ walked = (IF h.include_related THEN WithinHops(given, h.depth, mem)
                           ELSE given)
              /\ \A id \in walked :
                    /\ RowsOf(backendDb', id) = {mem'[id]}
                    /\ \E j \in (Len(busLog) + 1)..Len(busLog') :
                           busLog'[j] = publish_model(mem'[id])]_vars

(***************************************************************************)
(* Properties of the router (specification SpecRouter).                    *)
(***************************************************************************)
\* the replicated entity types: the models that extend PIIModel, directly
\* or through another model
ReplicatedTypes == {"Address", "UserProfile", "ArchivedAddress"}

\* C20: the router sends reads and writes of every replicated entity type to
\* the isolated store ("frontend"), and defers for every other type and for
\* the abstract base PIIModel itself.
C20_RoutesReplicatedTypes ==
    \A model \in Classes, operation \in Operations :
        routeHist[<<model, operation>>] # "unasked"
        => routeHist[<<model, operation>>]
               = (IF model \in ReplicatedTypes THEN "frontend" ELSE "None")

\* reads and writes were routed for a direct and an indirect subtype, for
\* the abstract base and for a model that is not replicated
C20_Witness ==
    \A operation \in Operations :
        /\ routeHist[<<"Address", operation>>] = "frontend"
        /\ routeHist[<<"ArchivedAddress", operation>>] = "frontend"
        /\ routeHist[<<"PIIModel", operation>>] = "None"
        /\ routeHist[<<"User", operation>>] = "None"

\* C21: allow_relation answers allowed when both objects are replicated
\* entities; when exactly one is, allowed if the mixed-relations flag is set
\* and disallowed otherwise; when neither is, it defers, whatever the flag.
C21_RelationTable ==
    \A obj1 \in ObjectKinds, obj2 \in ObjectKinds :
        relationHist[<<obj1, obj2>>] # "unasked"
        => LET n == Cardinality({k \in {1, 2} :
                        <<obj1, obj2>>[k] \in ReplicatedTypes})
           IN  relationHist[<<obj1, obj2>>]
                  = (IF n = 2 THEN "True"
                     ELSE IF n = 1 THEN (IF allow_mixed_relations THEN "True" ELSE "False")
                     ELSE "None")

(***************************************************************************)
(* Properties of the listener (specification Spec).                        *)
(***************************************************************************)
\* the events that are no data message: subscribe / unsubscribe acknowledgements
ControlEvent(e) == e.type \notin {"message", "none"}

\* C22: the listener passes over a control event: it looks at it once at
\* most, commits nothing to the isolated store while it holds it, and goes on
\* to the next event (so that a data message behind it gets processed).
C22_ControlEventSkipped ==
    /\ [](\A w \in 1..Len(workers) :
             ControlEvent(workers[w].msg) => workers[w].calls <= 1)
    /\ [][\A w \in 1..Len(workers) :
             (ControlEvent(workers[w].msg) /\ workers'[w] # workers[w])
                 => frontendDb' = frontendDb]_vars

\* the delay before retry k: retry_delay * backoff_factor^(k-1)
RECURSIVE DelayBefore(_)
DelayBefore(k) == IF k = 1 THEN retry_delay ELSE backoff_factor * DelayBefore(k - 1)

\* C23: with max_retries = 3, retry_delay = 1 and backoff_factor = 2, a
\* message whose processing fails on attempts 1 and 2 and succeeds on attempt
\* 3 has made the listener sleep 1s and then 2s, has been attempted exactly
\* three times, and is in the isolated store exactly once.
C23_RetryScenario ==
    \A w \in 1..Len(workers) :
        (workers[w].msg.type = "message" /\ workers[w].success /\ workers[w].calls = 3)
        => /\ workers[w].slept = <<DelayBefore(1), DelayBefore(2)>>
           /\ workers[w].slept = <<1, 2>>
           /\ \A k \in 1..Len(workers[w].msg.data.objs) :
                 Cardinality(RowsOf(frontendDb,
                     IdOf(DeserializeOne(workers[w].msg.data.objs[k])))) = 1

\* the listener threads that have not ended
LiveWorkers == {w \in 1..Len(workers) : workers[w].st # "dead"}

\* C24: whatever start(), stop() and restart() calls are made, in whatever
\* interleaving, the Consumer has at most one live listener thread -- also
\* when stop()'s join timed out on a busy listener and start() was called
\* again.
C24_OneLiveListener == Cardinality(LiveWorkers) <= 1

(***************************************************************************)
(* Properties of the sweep (specification SpecSweepFair).                  *)
(***************************************************************************)
\* a step that is one pass of the command's loop
SweepPassStep == sweep'.passes = sweep.passes + 1

\* the rows of a model that a step deletes
Gone(model) ==
    {r \in frontendDb : r.model = model /\ IdOf(r) \notin {IdOf(q) : q \in frontendDb'}}

\* C25: a sweep that is no dry run, over the N expired rows of a type, under
\* any batch_size >= 1 and with no other writer: every pass deletes
\* min(batch_size, remaining) expired rows of the type and nothing else, the
\* rows with the smallest remaining data_expires_at; the loop over the type
\* ends at the first batch smaller than batch_size; the command terminates,
\* and then all N expired rows are gone and the unexpired ones are left.
C25_SweepDeletesAllInBatches ==
    /\ [][(SweepPassStep /\ ~sweep.dry_run) =>
            LET model == Head(sweep.models)
                E     == Expired(frontendDb, model, now)
                gone  == Gone(model)
            IN  /\ gone \subseteq E
                /\ Cardinality(gone) = Min(sweep.batch_size, Cardinality(E))
                /\ \A r \in gone, q \in E \ gone :
                       ~TimeLT(q.data_expires_at, r.data_expires_at)
                /\ \A other \in PiiModels \ {model} :
                       IdsIn(frontendDb', other) = IdsIn(frontendDb, other)
                /\ (sweep'.models # sweep.models)
                       <=> (Cardinality(gone) < sweep.batch_size)
                /\ sweep'.total_deleted = sweep.total_deleted + Cardinality(gone)]_vars
    /\ [](\A model \in Swept :
             (sweep.pc = "done" /\ ~sweep.dry_run)
             => /\ Expired(frontendDb, model, now) = {}
                /\ IdsIn(frontendDb, model) = UnexpiredIds(sweep.before, model)
                /\ sweep.reported[model] = ExpiredCount(sweep.before, model))
    /\ ((sweep.pc = "loop" /\ ~sweep.dry_run) ~> (sweep.pc = "done"))

\* a finished sweep with batch_size 1 over two Address rows that had expired
\* at different instants, next to a profile that had not expired
C25_Witness ==
    /\ sweep.pc = "done" /\ ~sweep.dry_run /\ sweep.batch_size = 1
    /\ "Address" \in Swept
    /\ {r.data_expires_at : r \in Expired(sweep.before, "Address", now)}
           = {PastTime, RecentTime}
    /\ sweep.reported["Address"] = 2
    /\ IdsIn(frontendDb, "Address") = {}
    /\ \E r \in frontendDb : r.model = "UserProfile" /\ TimeLT(now, r.data_expires_at)

(***************************************************************************)
(* Properties of the sweep next to other writers (specification SpecRace). *)
(***************************************************************************)
\* a step in which the command's delete takes effect
RaceDeleteStep == race.pc = "selected" /\ race'.pc \in {"idle", "done"}

\* C26: whatever the interleaving of the command's select, its delete and a
\* refresh (or a Consumer overwrite) of the same record, every record the
\* command deletes has a committed data_expires_at in the past at the moment
\* the delete takes effect.
C26_DeletesOnlyExpired ==
    [][RaceDeleteStep =>
          \A r \in Gone("Address") : TimeLT(r.data_expires_at, now)]_vars

(***************************************************************************)
(* Further properties of the request gate (specification SpecGate).        *)
(***************************************************************************)
\* C27: a request whose path is the waiting view is never answered with a
\* redirect to the waiting view, whatever the session's flag and whatever
\* the isolated store holds: it is let through (so a client that follows
\* the gate's redirects comes to rest).
C27_WaitingViewPasses ==
    [][(GateStep /\ gateHist'.path = reverse(waiting_view))
          => gateHist'.response = "None"]_vars

\* C28: when a request in which the gate triggered a sync ends with the
\* session marked sync-in-progress, the sync_data call has put at least one
\* message on the bus; a trigger that published nothing (sync_data raised,
\* or returned False) does not leave the flag set.
C28_FlagMeansPublished ==
    [][(GateStep /\ gateHist'.sync # "none")
          => (session'.items.pii_sync_in_progress => Len(busLog') > Len(busLog))]_vars

(***************************************************************************)
(* Further properties of sync_data (specification SpecSync).               *)
(***************************************************************************)
\* C29: every message a sync_data call puts on the bus describes an
\* instance whose write to the secure store is committed when the call ends;
\* a call that fails and is rolled back has published no message.
C29_PublishedIsCommitted ==
    [][SyncStep =>
          /\ \A j \in (Len(busLog) + 1)..Len(busLog') :
                \A k \in 1..Len(busLog'[j].data.objs) :
                    \E r \in backendDb' : SerializeOne(r) = busLog'[j].data.objs[k]
          /\ syncHist'.result = "raised" => busLog' = busLog]_vars

(***************************************************************************)
(* Further properties of the Consumer (specification Spec).                *)
(***************************************************************************)
\* C30: whenever the Consumer's running flag is true its listener thread is
\* alive: a listener that ends on its own leaves the Consumer stopped (so
\* that status() reports running false and a later start() succeeds).
C30_RunningMeansAlive ==
    running => (thread \in 1..Len(workers) /\ workers[thread].st # "dead")

====
